---- MODULE Spec2Model ----
(***************************************************************************)
(* Resonance engine: the locus ledger, the graph store (nodes, nodes_fts,  *)
(* edges), the LouvainGate, the schema migrations and the Ingestor         *)
(* pipeline, as state machines.                                            *)
(*                                                                         *)
(* The module holds several specifications over one set of variables; a   *)
(* specification leaves the variables of the other components unchanged.   *)
(*   SpecLedger   LocusLedger.getOrMintId, two handles on one ledger file  *)
(*   SpecNodes    insertNode / node deletion with the FTS triggers          *)
(*   SpecGraph    insertEdge and LouvainGate.check on arbitrary graphs      *)
(*   SpecMigrate  opening a database file: ResonanceDB.migrate              *)
(*   SpecIngest   Ingestor.run, twice, on a corpus that does not change     *)
(*   SpecMigrateFaulty  migrate, where a statement of a migration can raise*)
(*   SpecIngestFaulty   Ingestor.run with embed/read failures and stops    *)
(*   SpecSearch   the search_documents tool on small indexed stores        *)
(*   SpecValidate PipelineValidator: captureBaseline, expect, validate     *)
(*   SpecBoxer    BentoBoxer.process and the box / audit commands          *)
(*   SpecVectors  vectors stored through toFafcas and VectorEngine.embed   *)
(*   SpecTags     TagEngine.getInstance and generateTags, three callers    *)
(*   SpecIngestEdits  Ingestor.run, with a box edited between the runs     *)
(*   SpecTimeline TimelineWeaver.weave on stores of debriefs               *)
(*   SpecSemantic SemanticWeaver.weave on stores of notes                  *)
(*   SpecSemanticSteps  the same weave, one orphan of its loop at a time   *)
(*   SpecTimelineRuns   TimelineWeaver.weave, debriefs added between runs  *)
(*   SpecIngestCold     one Ingestor.run, files and boxes that share an id *)
(*   SpecTokenizer  TokenizerService.loadLexicon and extract               *)
(*   SpecNormalizer BentoNormalizer.fixShouting                            *)
(*   SpecMasker     MarkdownMasker.mask, unmask and reset                  *)
(***************************************************************************)
EXTENDS Integers, Sequences, FiniteSets, Bags, TLC

VARIABLES
    \* ---- LocusLedger (the bento_map table and two handles on it)
    bento_map,   \* set of rows [canon_hash, locus_id]
    hpc,         \* handle -> "idle" | "miss" | "returned" | "raised"
    harg,        \* handle -> the contentHash of its current/last call
    hret,        \* handle -> the id its last call returned, or NoId
    minted,      \* the UUIDs randomUUID() has produced so far
    returned,    \* history: every <<hash, id>> a call has returned
    \* ---- the graph store (resonance.db)
    nodes,       \* set of rows of table nodes; id is the PRIMARY KEY
    nodes_fts,   \* set of rows of the FTS table, keyed by rowid
    edges,       \* bag of rows <<source, target, type>> of table edges
    \* ---- callers of the store in SpecNodes / SpecGraph
    gate,        \* the last LouvainGate.check: <<>> or <<[source, target, allowed]>>
    lastEdgeOp,  \* what the last insertEdge did: "none" | "added" | "ignored"
    \* ---- the store file's schema and the ResonanceDB constructor
    user_version,   \* PRAGMA user_version of the file
    objects,        \* the tables, indexes and triggers in sqlite_master
    nodeCols,       \* the columns of table nodes
    mpc,            \* "closed" | "migrating" | "open"
    currentVersion, \* migrate's local
    mi,             \* migrate's position in MIGRATIONS (1-based)
    applied,        \* history: versions of the migrations run by this open
    installed,      \* history: versions of the migrations completed on the file
    opens,          \* history: constructors that have completed
    snap,           \* history: the file as the first open left it
    \* ---- the Ingestor
    corpus,      \* the persona artifacts and the source files on disk
    ipc,         \* the Ingestor's position in run()
    ix,          \* loop positions [i, j, k] of the phase ipc names
    orphans,     \* SemanticWeaver's list of orphans (row ids, in row order)
    runs,        \* history: runs that have completed
    ingested,    \* history: ids of the boxes this run did not skip
    edgeLog,     \* history: every edge row inserted: [edge, by, allowed]
    runEnd,      \* history: the store as the first run left it
    woven,       \* history: ids whose weave has completed since their upsert
    failure,     \* history: what ended the last run early: <<>> or <<[cause, at]>>
    attempts,    \* history: runs that have been started
    startCounts, \* history: the counts of the store when the run began
    \* ---- the PipelineValidator of the run
    baseline,    \* captureBaseline's counts, or <<>>
    expectations,\* what expect() was given
    report,      \* the last report of validate, or <<>>
    \* ---- the MCP server
    call,        \* the last search_documents call and its response, or <<>>
    \* ---- the bento CLI (box, audit)
    tree,        \* the top-level blocks of the parsed source document
    boxes,       \* <<>> or <<the boxes BentoBoxer.process returned>>
    audit,       \* <<>> or <<whether the audit command passed>>
    \* ---- VectorEngine
    blob,        \* <<>> or <<the blob the last VectorEngine.embed returned>>
    \* ---- TagEngine and LLMClient (the statics and the callers)
    instance,    \* TagEngine.instance: <<>> or <<[llm |-> whether llm is set]>>
    llmInstance, \* whether LLMClient.instance is set
    tpc,         \* caller -> "idle" | "awaiting" | "engine" | "rejected" | "done"
    tags,        \* caller -> its last generateTags: "none" | "tags" | "empty" | "raised"
    \* ---- the author of the corpus
    edited,      \* history: the last edit of a box: <<>> or
                 \* <<[id, from, to, after, nodes]>>
    \* ---- TokenizerService (the singleton's fields and its last extract)
    vocabulary,  \* the Map term -> tag, as the sequence of its entries
    searchKeys,  \* the terms, longest first
    extracted,   \* <<>> or <<[text, terms]>>: the last extract and its result
    \* ---- BentoNormalizer
    page,        \* <<>> or <<[lines, times]>>: a document and how often
                 \* fixShouting was applied to it
    \* ---- MarkdownMasker
    stash,       \* the Map token -> match, as the sequence of its entries
    masked,      \* <<>> or <<[plain, text]>>: the last mask and its result
    unmasked     \* <<>> or <<the text the last unmask returned>>

ledgerVars == <<bento_map, hpc, harg, hret, minted, returned>>
storeVars  == <<nodes, nodes_fts, edges>>
graphVars  == <<gate, lastEdgeOp>>
migVars    == <<user_version, objects, nodeCols, mpc, currentVersion, mi,
                applied, installed, opens, snap>>

ingestVars == <<corpus, ipc, ix, orphans, runs, ingested, edgeLog, runEnd,
                woven, failure, attempts, startCounts>>
validatorVars == <<baseline, expectations, report>>

searchVars == <<call>>

boxerVars == <<tree, boxes, audit>>

vectorVars == <<blob>>
tagVars == <<instance, llmInstance, tpc, tags>>
editVars == <<edited>>
textVars == <<vocabulary, searchKeys, extracted, page, stash, masked, unmasked>>

vars == <<ledgerVars, storeVars, graphVars, migVars, ingestVars, searchVars,
          validatorVars, boxerVars, vectorVars, tagVars, editVars, textVars>>

NoId == "none"

\* A nullable column or optional value: <<>> is NULL/undefined, <<v>> is v.
Null == <<>>
Some(v) == <<v>>

EmptyStore ==
    /\ nodes = {}
    /\ nodes_fts = {}
    /\ edges = EmptyBag

IdleGraph ==
    /\ gate = Null
    /\ lastEdgeOp = "none"

\* The callers of TagEngine.getInstance.
Callers == {"A", "B", "C"}

\* The bento CLI has not been given a document; no vector was embedded;
\* no TagEngine was asked for; the tokenizer has no vocabulary, the
\* normalizer no document and the masker an empty stash.
IdleBoxer ==
    /\ vocabulary = <<>>
    /\ searchKeys = <<>>
    /\ extracted = <<>>
    /\ page = <<>>
    /\ stash = <<>>
    /\ masked = <<>>
    /\ unmasked = <<>>
    /\ tree = <<>>
    /\ boxes = Null
    /\ audit = Null
    /\ blob = Null
    /\ instance = Null
    /\ llmInstance = FALSE
    /\ tpc = [c \in Callers |-> "idle"]
    /\ tags = [c \in Callers |-> "none"]

\* No Ingestor is running.
IdleIngestor ==
    /\ corpus = [lexicon |-> <<>>, cda |-> <<>>, files |-> <<>>]
    /\ ipc = "idle"
    /\ ix = [i |-> 1, j |-> 1, k |-> 1]
    /\ orphans = <<>>
    /\ runs = 0
    /\ ingested = {}
    /\ edgeLog = {}
    /\ runEnd = Null
    /\ woven = {}
    /\ failure = Null
    /\ attempts = 0
    /\ startCounts = Null
    /\ edited = Null

(***************************************************************************)
(* The schema: MIGRATIONS                                                  *)
(***************************************************************************)
CURRENT_SCHEMA_VERSION == 3

\* What migration 1 creates, each IF NOT EXISTS.
AllObjects == {"nodes", "edges", "idx_edges_source", "idx_edges_target",
               "nodes_fts", "nodes_ai", "nodes_ad", "nodes_au"}
BaseCols == {"id", "type", "title", "content", "domain", "layer", "embedding"}

\* ALTER TABLE nodes ADD COLUMN col, inside the try/catch of up(): a
\* duplicate column is swallowed, any other error is thrown again.
AddColumn(objs, cols, col) ==
    IF "nodes" \notin objs THEN [ok |-> FALSE, objects |-> objs, cols |-> cols]
    ELSE [ok |-> TRUE, objects |-> objs, cols |-> cols \cup {col}]

\* MIGRATIONS[version - 1]: its sql, then its up().
RunMigration(objs, cols, version) ==
    CASE version = 1 ->
            [ok |-> TRUE, objects |-> objs \cup AllObjects,
             cols |-> IF "nodes" \in objs THEN cols ELSE BaseCols]
      [] version = 2 -> AddColumn(objs, cols, "hash")
      [] version = 3 -> AddColumn(objs, cols, "meta")

MigrationVersions == <<1, 2, 3>>

\* A store the constructor has opened and migrated to the current version.
OpenedStore ==
    /\ user_version = CURRENT_SCHEMA_VERSION
    /\ objects = AllObjects
    /\ nodeCols = BaseCols \cup {"hash", "meta"}
    /\ mpc = "open"
    /\ currentVersion = CURRENT_SCHEMA_VERSION
    /\ mi = 1
    /\ applied = <<>>
    /\ installed = 1..CURRENT_SCHEMA_VERSION
    /\ opens = 1
    /\ snap = Null

(***************************************************************************)
(* LocusLedger                                                             *)
(***************************************************************************)
Handles == {"A", "B"}
Hashes  == {"h1", "h2"}
UUIDs   == {"u1", "u2", "u3", "u4"}

\* SELECT locus_id FROM bento_map WHERE canon_hash = $hash
SelectLocus(map, hash) == {r \in map : r.canon_hash = hash}

\* INSERT OR REPLACE in place of INSERT: the conflicting row is overwritten.
InsertBentoReplace(map, hash, id) ==
    [ok  |-> TRUE,
     map |-> {r \in map : r.canon_hash # hash}
                \cup {[canon_hash |-> hash, locus_id |-> id]}]

\* INSERT INTO bento_map (canon_hash, locus_id) VALUES ($hash, $id)
\* canon_hash is the PRIMARY KEY: a second row for the hash raises.
InsertBento(map, hash, id) ==
    IF SelectLocus(map, hash) # {}
    THEN [ok |-> FALSE, map |-> map]
    ELSE [ok |-> TRUE, map |-> map \cup {[canon_hash |-> hash, locus_id |-> id]}]

InitLedger ==
    /\ bento_map = {}
    /\ hpc = [h \in Handles |-> "idle"]
    /\ harg = [h \in Handles |-> "h1"]
    /\ hret = [h \in Handles |-> NoId]
    /\ minted = {}
    /\ returned = {}

IdleLedger == InitLedger

\* getOrMintId, first statement: the lookup, and the early return on a hit.
GetOrMintIdLookup(h, hash) ==
    /\ hpc[h] # "miss"
    /\ harg' = [harg EXCEPT ![h] = hash]
    /\ LET result == SelectLocus(bento_map, hash) IN
       IF result # {}
       THEN LET id == (CHOOSE r \in result : TRUE).locus_id IN
            /\ hpc' = [hpc EXCEPT ![h] = "returned"]
            /\ hret' = [hret EXCEPT ![h] = id]
            /\ returned' = returned \cup {<<hash, id>>}
       ELSE /\ hpc' = [hpc EXCEPT ![h] = "miss"]
            /\ hret' = [hret EXCEPT ![h] = NoId]
            /\ UNCHANGED returned
    /\ UNCHANGED <<bento_map, minted>>
    /\ UNCHANGED <<storeVars, graphVars, migVars, ingestVars,
                   searchVars, validatorVars, boxerVars, vectorVars,
                   tagVars, editVars, textVars>>

\* getOrMintId after a miss: randomUUID(), the INSERT, return newId.
GetOrMintIdInsert(h) ==
    /\ hpc[h] = "miss"
    /\ \E newId \in UUIDs \ minted :
        LET ins == InsertBento(bento_map, harg[h], newId) IN
        /\ minted' = minted \cup {newId}
        /\ bento_map' = ins.map
        /\ IF ins.ok
           THEN /\ hpc' = [hpc EXCEPT ![h] = "returned"]
                /\ hret' = [hret EXCEPT ![h] = newId]
                /\ returned' = returned \cup {<<harg[h], newId>>}
           ELSE /\ hpc' = [hpc EXCEPT ![h] = "raised"]
                /\ hret' = [hret EXCEPT ![h] = NoId]
                /\ UNCHANGED returned
    /\ UNCHANGED harg
    /\ UNCHANGED <<storeVars, graphVars, migVars, ingestVars,
                   searchVars, validatorVars, boxerVars, vectorVars,
                   tagVars, editVars, textVars>>

NextLedger ==
    \/ \E h \in Handles, hash \in Hashes : GetOrMintIdLookup(h, hash)
    \/ \E h \in Handles : GetOrMintIdInsert(h)

\* The MCP server has handled no call; no validator has been made.
IdleSearch == call = <<>>

NoExpectations == [min_nodes_added |-> Null, required_vector_coverage |-> Null]

IdleValidator ==
    /\ baseline = Null
    /\ expectations = NoExpectations
    /\ report = Null

\* Every component as it is constructed: an empty ledger, a new database
\* file opened once, no gate result, no ingestion begun.
InitStore ==
    /\ IdleSearch
    /\ IdleBoxer
    /\ IdleValidator
    /\ InitLedger
    /\ EmptyStore
    /\ IdleGraph
    /\ OpenedStore
    /\ IdleIngestor

SpecLedger == InitStore /\ [][NextLedger]_vars

\* C2: the ledger is a function that never changes an entry: all the ids a
\* call has ever returned for a hash are one id, which is the id of the
\* hash's row, and no step updates or deletes a bento_map row.
C2_LedgerNeverReassigns ==
    /\ [](\A p \in returned, q \in returned : p[1] = q[1] => p[2] = q[2])
    /\ [](\A p \in returned : [canon_hash |-> p[1], locus_id |-> p[2]] \in bento_map)
    /\ [][bento_map \subseteq bento_map']_vars

\* Two calls for h1 have returned, both the same id, on a ledger that has
\* also minted an id for h2.
C2_Witness ==
    /\ hpc["A"] = "returned" /\ hpc["B"] = "returned"
    /\ harg["A"] = "h1" /\ harg["B"] = "h1"
    /\ hret["A"] = hret["B"] /\ hret["A"] # NoId
    /\ SelectLocus(bento_map, "h2") # {}

\* C3 as stated: no call of getOrMintId fails, and two calls for one hash
\* that have both returned have returned the same id.
C3_ConcurrentMintSameId ==
    /\ \A h \in Handles : hpc[h] # "raised"
    /\ \A a \in Handles, b \in Handles :
         (hpc[a] = "returned" /\ hpc[b] = "returned" /\ harg[a] = harg[b])
            => hret[a] = hret[b]

(***************************************************************************)
(* Content, hashes and vectors                                             *)
(*                                                                         *)
(* A text is a record: its trimmed characters (text), whether it carries   *)
(* leading or trailing whitespace (pad), its length class (len: "tiny" is  *)
(* at most 10 characters, "short" 11 to 50, "long" more than 50), and the  *)
(* edge signals written in it, in document order (links).                  *)
(***************************************************************************)
Text(t, pad, len, links) == [text |-> t, pad |-> pad, len |-> len, links |-> links]

\* The texts whose leading and trailing white space is what takes them
\* over 50 characters: trimmed, they are "short".
WidePadded == {"t6"}

\* The length class of c.trim().
TrimmedLen(c) ==
    IF c.pad /\ c.text \in WidePadded /\ c.len = "long" THEN "short" ELSE c.len

\* String.prototype.trim
Trim(c) == [c EXCEPT !.pad = FALSE, !.len = TrimmedLen(c)]

\* LocusLedger.hashContent: the MD5 digest of the trimmed text; the digest is
\* modelled as an injective tag of what was hashed.
HashContent(c) == <<"md5", Trim(c)>>

\* toFafcas: a vector is [dir, mag]; a magnitude above 1e-6 ("big", "unit")
\* is divided out, a smaller one ("zero", "tiny") leaves the vector as it is.
ToFafcas(v) == IF v.mag \in {"zero", "tiny"} THEN v ELSE [v EXCEPT !.mag = "unit"]

(***************************************************************************)
(* The graph store: ResonanceDB                                            *)
(***************************************************************************)
MaxOf(S) == CHOOSE x \in S : \A y \in S : y <= x

\* The rowid SQLite gives a new row of a rowid table: one more than the
\* largest rowid in the table (taken before a REPLACE removes the old row).
NextRowid(ns) == IF ns = {} THEN 1 ELSE MaxOf({r.rowid : r \in ns}) + 1

\* Trigger nodes_ai: INSERT INTO nodes_fts(rowid, id, title, content, meta).
\* The statement runs with the conflict policy of the statement that fired
\* it (OR REPLACE), so an FTS row of the same rowid is replaced.
TriggerAfterInsert(fts, new) ==
    {f \in fts : f.rowid # new.rowid}
        \cup {[rowid |-> new.rowid, id |-> new.id, content |-> new.content]}

\* Trigger nodes_ad: DELETE FROM nodes_fts WHERE rowid = old.rowid
TriggerAfterDelete(fts, old) == {f \in fts : f.rowid # old.rowid}

\* ResonanceDB.insertNode: INSERT OR REPLACE INTO nodes. The row that holds
\* the id is removed by the REPLACE conflict resolution, which fires no
\* delete trigger (recursive_triggers is never switched on), the new row
\* gets a fresh rowid and nodes_ai fires for it.
\* Returns the tables [nodes, fts].
InsertNode(ns, fts, node) ==
    LET row == [rowid     |-> NextRowid(ns),
                id        |-> node.id,
                type      |-> node.type,
                content   |-> IF node.content # Null /\ node.content[1].text # ""
                              THEN node.content ELSE Null,
                domain    |-> IF node.domain # Null THEN node.domain[1] ELSE "knowledge",
                embedding |-> IF node.embedding # Null
                              THEN Some(ToFafcas(node.embedding[1])) ELSE Null,
                hash      |-> node.hash,
                meta      |-> node.meta]
    IN [nodes |-> {r \in ns : r.id # node.id} \cup {row},
        fts   |-> TriggerAfterInsert(fts, row)]

\* DELETE FROM nodes WHERE id = ? (an administrator's statement; the core
\* has no such operation), with trigger nodes_ad.
DeleteNode(ns, fts, id) ==
    [nodes |-> {r \in ns : r.id # id},
     fts   |-> {f \in fts : \A old \in ns : old.id = id => f.rowid # old.rowid}]

\* INSERT without the primary key: every call appends a row.
InsertEdgeNoKey(es, source, target, type) ==
    es (+) SetToBag({<<source, target, type>>})

\* An insert that first deletes the rows of the same source.
InsertEdgeReplacing(es, source, target, type) ==
    LET kept == {e \in BagToSet(es) : e[1] # source}
    IN SetToBag(kept \cup {<<source, target, type>>})

\* ResonanceDB.insertEdge: INSERT OR IGNORE INTO edges, whose PRIMARY KEY is
\* (source, target, type).
InsertEdge(es, source, target, type) ==
    IF BagIn(<<source, target, type>>, es)
    THEN es
    ELSE es (+) SetToBag({<<source, target, type>>})

\* getNodeHash that finds no row for any id.
GetNodeHashNone(ns, id) == Null

\* ResonanceDB.getNodeHash: the hash column of the row, or null.
GetNodeHash(ns, id) ==
    IF \E r \in ns : r.id = id
    THEN (CHOOSE r \in ns : r.id = id).hash
    ELSE Null

(***************************************************************************)
(* LouvainGate                                                             *)
(***************************************************************************)
Threshold == 2   \* the default of check's parameter is 50

\* SELECT COUNT(*) FROM edges WHERE target = ? OR source = ?
IncidentCount(es, id) ==
    LET inc == {e \in BagToSet(es) : e[2] = id \/ e[1] = id}
    IN BagCardinality([e \in inc |-> es[e]])

\* isSuperNode with >= in place of >.
IsSuperNodeAtThreshold(es, id, threshold) == IncidentCount(es, id) >= threshold

IsSuperNode(es, id, threshold) == IncidentCount(es, id) > threshold

\* sharesNeighbor: the self-join of edges; e1 is a row incident on a, e2 a
\* row incident on b, and the two rows have an endpoint in common.
SharesNeighbor(es, a, b) ==
    \E e1 \in BagToSet(es), e2 \in BagToSet(es) :
        /\ \/ e1[2] = e2[2]
           \/ e1[1] = e2[1]
           \/ e1[2] = e2[1]
           \/ e1[1] = e2[2]
        /\ (e1[1] = a \/ e1[2] = a)
        /\ (e2[1] = b \/ e2[2] = b)

\* LouvainGate.check: the value of .allowed
Check(es, source, target, threshold) ==
    IF IsSuperNode(es, target, threshold)
    THEN (IF ~SharesNeighbor(es, source, target) THEN FALSE ELSE TRUE)
    ELSE TRUE

(***************************************************************************)
(* SpecNodes: insertNode and node deletion on one store                    *)
(***************************************************************************)
NodeIds   == {"a", "b", "c"}
MaxRowid  == 4

Plain(t) == Text(t, FALSE, "short", <<>>)

InsertNodeOp(id, c) ==
    /\ NextRowid(nodes) <= MaxRowid
    /\ LET res == InsertNode(nodes, nodes_fts,
                      [id |-> id, type |-> "note", content |-> Some(c),
                       domain |-> Null, embedding |-> Null, hash |-> Null,
                       meta |-> Null])
       IN /\ nodes' = res.nodes
          /\ nodes_fts' = res.fts
    /\ UNCHANGED <<edges, ledgerVars, graphVars, migVars, ingestVars,
                   searchVars, validatorVars, boxerVars, vectorVars,
                   tagVars, editVars, textVars>>

DeleteNodeOp(id) ==
    /\ \E r \in nodes : r.id = id
    /\ LET res == DeleteNode(nodes, nodes_fts, id)
       IN /\ nodes' = res.nodes
          /\ nodes_fts' = res.fts
    /\ UNCHANGED <<edges, ledgerVars, graphVars, migVars, ingestVars,
                   searchVars, validatorVars, boxerVars, vectorVars,
                   tagVars, editVars, textVars>>

NextNodes ==
    \/ \E id \in NodeIds, t \in {"t1", "t2"} : InsertNodeOp(id, Plain(t))
    \/ \E id \in NodeIds : DeleteNodeOp(id)

SpecNodes == InitStore /\ [][NextNodes]_vars

\* C4 as stated: nodes_fts has as many rows as nodes, and every node has
\* exactly one FTS row.
C4_FtsBijection ==
    /\ Cardinality(nodes_fts) = Cardinality(nodes)
    /\ \A n \in nodes : Cardinality({f \in nodes_fts : f.id = n.id}) = 1

(***************************************************************************)
(* SpecGraph: insertEdge and LouvainGate.check on one store                *)
(***************************************************************************)
EdgeTypes == {"X", "Y"}
MaxEdges  == 3

InsertEdgeOp(s, t, ty) ==
    /\ BagCardinality(InsertEdge(edges, s, t, ty)) <= MaxEdges
    /\ edges' = InsertEdge(edges, s, t, ty)
    /\ lastEdgeOp' = IF BagIn(<<s, t, ty>>, edges) THEN "ignored" ELSE "added"
    /\ gate' = Null
    /\ UNCHANGED <<nodes, nodes_fts, ledgerVars, migVars, ingestVars,
                   searchVars, validatorVars, boxerVars, vectorVars,
                   tagVars, editVars, textVars>>

GateCheckOp(s, t) ==
    /\ gate' = Some([source |-> s, target |-> t,
                     allowed |-> Check(edges, s, t, Threshold)])
    /\ lastEdgeOp' = "none"
    /\ UNCHANGED <<storeVars, ledgerVars, migVars, ingestVars,
                   searchVars, validatorVars, boxerVars, vectorVars,
                   tagVars, editVars, textVars>>

NextGraph ==
    \/ \E s \in NodeIds, t \in NodeIds, ty \in EdgeTypes : InsertEdgeOp(s, t, ty)
    \/ \E s \in NodeIds, t \in NodeIds : GateCheckOp(s, t)

SpecGraph == InitStore /\ [][NextGraph]_vars

\* C6: insertEdge is idempotent: the table never holds a triple twice, an
\* insertEdge of a triple the table holds leaves the table as it is, and an
\* insertEdge keeps every row, so that triples differing only in type are
\* separate rows.
C6_InsertEdgeIdempotent ==
    /\ [](\A e \in BagToSet(edges) : CopiesIn(e, edges) = 1)
    /\ [][\A s \in NodeIds, t \in NodeIds, ty \in EdgeTypes :
            InsertEdgeOp(s, t, ty) =>
                /\ BagIn(<<s, t, ty>>, edges')
                /\ BagIn(<<s, t, ty>>, edges) => edges' = edges
                /\ \A e \in BagToSet(edges) : BagIn(e, edges')]_vars

\* An insertEdge has just been ignored, on a table that holds a pair of
\* nodes under both types.
C6_Witness ==
    /\ lastEdgeOp = "ignored"
    /\ \E s \in NodeIds, t \in NodeIds :
          BagIn(<<s, t, "X">>, edges) /\ BagIn(<<s, t, "Y">>, edges)

\* The rows of edges that have the node as source or as target.
RowsOn(id) == {e \in BagToSet(edges) : e[1] = id \/ e[2] = id}

\* C7: a check whose target has at most threshold incident edges allows.
C7_LowDegreeAllowed ==
    \A g \in {gate[i] : i \in DOMAIN gate} :
        Cardinality(RowsOn(g.target)) <= Threshold => g.allowed

\* A target with exactly threshold incident edges, none to the source or to
\* a neighbour of the source, was checked and allowed.
C7_Witness ==
    /\ gate # Null
    /\ Cardinality(RowsOn(gate[1].target)) = Threshold
    /\ RowsOn(gate[1].source) = {}
    /\ gate[1].source # gate[1].target
    /\ gate[1].allowed

\* There is a node n with an edge between a and n and an edge between b and n.
CommonNeighbor(a, b) ==
    \E n \in NodeIds :
        /\ \E e \in BagToSet(edges) : {e[1], e[2]} = {a, n}
        /\ \E e \in BagToSet(edges) : {e[1], e[2]} = {b, n}

\* C8 as stated: check rejects exactly when the target has more than
\* threshold incident edges and source and target have no common neighbour.
C8_RejectsIffSuperAndNoNeighbor ==
    \A g \in {gate[i] : i \in DOMAIN gate} :
        (~g.allowed) <=> (/\ Cardinality(RowsOn(g.target)) > Threshold
                          /\ ~CommonNeighbor(g.source, g.target))

(***************************************************************************)
(* SpecMigrate: the ResonanceDB constructor, run twice on one file         *)
(***************************************************************************)
MaxOpens == 2

File == [user_version |-> user_version, objects |-> objects,
         nodeCols |-> nodeCols, nodes |-> nodes, nodes_fts |-> nodes_fts,
         edges |-> edges]

\* The columns of nodes after the migrations up to version v.
ColsAt(v) == BaseCols \cup (IF v >= 2 THEN {"hash"} ELSE {})
                      \cup (IF v >= 3 THEN {"meta"} ELSE {})

\* A row written before the file was closed (its hash and meta are NULL).
OldRow == [id |-> "a", type |-> "note", content |-> Some(Plain("t1")),
           domain |-> Null, embedding |-> Null, hash |-> Null, meta |-> Null]

\* migrate, lines 38-57: the version of an unversioned file that holds a
\* nodes table, told from the columns of nodes.
DetectVersion(cols) ==
    IF "hash" \in cols /\ "meta" \in cols THEN 3
    ELSE IF "hash" \in cols THEN 2
    ELSE 1

\* The files the constructor may find: an empty file, a file versioned at
\* 1, 2 or 3, and an unversioned file holding a nodes table with or without
\* the hash and meta columns; with or without a row. An unversioned file
\* was written by the code that came before the versions, and counts as
\* holding the migrations its columns tell.
StartFiles ==
    LET rowsOf(objs, withRow) ==
            IF ~withRow THEN [nodes |-> {}, fts |-> {}]
            ELSE LET r == InsertNode({}, {}, OldRow)
                 IN [nodes |-> r.nodes,
                     fts |-> IF "nodes_ai" \in objs THEN r.fts ELSE {}]
        mk(uv, objs, cols, withRow) ==
            [user_version |-> uv, objects |-> objs, nodeCols |-> cols,
             installed |-> IF uv > 0 THEN 1..uv
                           ELSE IF "nodes" \in objs THEN 1..DetectVersion(cols)
                           ELSE {},
             nodes |-> rowsOf(objs, withRow).nodes,
             nodes_fts |-> rowsOf(objs, withRow).fts]
    IN {mk(0, {}, {}, FALSE)}
       \cup {mk(v, AllObjects, ColsAt(v), w) : v \in 1..3, w \in BOOLEAN}
       \cup {mk(0, objs, BaseCols \cup extra, w) :
                objs \in {{"nodes"}, {"nodes", "edges"}, AllObjects},
                extra \in SUBSET {"hash", "meta"}, w \in BOOLEAN}

InitMigrate ==
    /\ \E f \in StartFiles :
        /\ user_version = f.user_version
        /\ objects = f.objects
        /\ nodeCols = f.nodeCols
        /\ installed = f.installed
        /\ nodes = f.nodes
        /\ nodes_fts = f.nodes_fts
    /\ edges = EmptyBag
    /\ mpc = "closed"
    /\ currentVersion = 0
    /\ mi = 1
    /\ applied = <<>>
    /\ opens = 0
    /\ snap = Null

\* The loop body without PRAGMA user_version = ${migration.version}.
MigrationStepNoBump(uv, objs, cols, version) ==
    LET r == RunMigration(objs, cols, version)
    IN [ok |-> r.ok, objects |-> r.objects, cols |-> r.cols, user_version |-> uv]

\* migrate, lines 66-72: run the migration, then write its version.
MigrationStep(uv, objs, cols, version) ==
    LET r == RunMigration(objs, cols, version)
    IN [ok |-> r.ok, objects |-> r.objects, cols |-> r.cols,
        user_version |-> IF r.ok THEN version ELSE uv]

\* migrate, line 64: the loop runs the migrations above the current
\* version.
Missing(version, current) == version > current

\* The constructor returns: the store is open.
Opened(file) ==
    /\ mpc' = "open"
    /\ opens' = opens + 1
    /\ snap' = IF opens = 0 THEN Some(file) ELSE snap

\* new ResonanceDB(path) up to the loop of migrate: read user_version,
\* detect the version of an unversioned file, return if it is current.
OpenBegin ==
    /\ mpc \in {"closed", "failed"}
    /\ opens < MaxOpens
    /\ LET detect == user_version = 0 /\ "nodes" \in objects
           cv == IF detect THEN DetectVersion(nodeCols) ELSE user_version
       IN /\ user_version' = cv
          /\ currentVersion' = cv
          /\ IF cv >= CURRENT_SCHEMA_VERSION
             THEN Opened([File EXCEPT !.user_version = cv])
             ELSE mpc' = "migrating" /\ UNCHANGED <<opens, snap>>
    /\ mi' = 1
    /\ applied' = <<>>
    /\ UNCHANGED <<objects, nodeCols, installed, storeVars, ledgerVars, graphVars,
                   ingestVars, searchVars, validatorVars, boxerVars,
                   vectorVars, tagVars, editVars, textVars>>

\* One iteration of the loop over MIGRATIONS; after the last one migrate and
\* the constructor return. A migration that throws ends the constructor.
MigrateStep ==
    /\ mpc = "migrating"
    /\ LET version == MigrationVersions[mi]
           r == IF Missing(version, currentVersion)
                THEN MigrationStep(user_version, objects, nodeCols, version)
                ELSE [ok |-> TRUE, objects |-> objects, cols |-> nodeCols,
                      user_version |-> user_version]
       IN /\ objects' = r.objects
          /\ nodeCols' = r.cols
          /\ user_version' = r.user_version
          /\ currentVersion' = IF Missing(version, currentVersion) /\ r.ok
                               THEN version ELSE currentVersion
          /\ applied' = IF Missing(version, currentVersion) /\ r.ok
                        THEN Append(applied, version) ELSE applied
          /\ installed' = IF Missing(version, currentVersion) /\ r.ok
                          THEN installed \cup {version} ELSE installed
          /\ IF ~r.ok
             THEN mpc' = "failed" /\ UNCHANGED <<mi, opens, snap>>
             ELSE IF mi = Len(MigrationVersions)
             THEN /\ Opened([File EXCEPT !.user_version = r.user_version,
                                         !.objects = r.objects,
                                         !.nodeCols = r.cols])
                  /\ UNCHANGED mi
             ELSE mi' = mi + 1 /\ UNCHANGED <<mpc, opens, snap>>
    /\ UNCHANGED <<storeVars, ledgerVars, graphVars, ingestVars,
                   searchVars, validatorVars, boxerVars, vectorVars,
                   tagVars, editVars, textVars>>

\* ResonanceDB.close
CloseStore ==
    /\ mpc = "open"
    /\ mpc' = "closed"
    /\ UNCHANGED <<user_version, objects, nodeCols, currentVersion, mi,
                   applied, installed, opens, snap, storeVars,
                   ledgerVars, graphVars,
                   ingestVars, searchVars, validatorVars, boxerVars,
                   vectorVars, tagVars, editVars, textVars>>

NextMigrate == OpenBegin \/ MigrateStep \/ CloseStore

\* The statements of migration 1, in the order of its script: what each
\* creates.
V1Script == <<"nodes", "edges", "idx_edges_source", "idx_edges_target",
              "nodes_fts", "nodes_ai", "nodes_ad", "nodes_au">>

\* The failing step with the version written before the migration is run.
MigrationRaisesAfterBump(uv, objs, cols, version, k) ==
    [ok |-> FALSE, objects |-> objs, cols |-> cols, user_version |-> version]

\* migrate, lines 66-71, when db.run raises (disk full, I/O error, a busy
\* file, FTS5 missing): line 72 is not reached. The script of migration 1
\* is run statement by statement, each committed on its own, so the first
\* k statements stay; the single ALTER TABLE of migrations 2 and 3 leaves
\* nothing.
MigrationRaises(uv, objs, cols, version, k) ==
    LET made == IF version = 1 THEN {V1Script[n] : n \in 1..k} ELSE {}
    IN [ok |-> FALSE, objects |-> objs \cup made,
        cols |-> IF "nodes" \in made /\ "nodes" \notin objs THEN BaseCols ELSE cols,
        user_version |-> uv]

\* One iteration of the loop in which the migration throws: migrate and the
\* constructor end with the error, no store is open.
MigrateStepRaises ==
    /\ mpc = "migrating"
    /\ Missing(MigrationVersions[mi], currentVersion)
    /\ \E k \in 0..(Len(V1Script) - 1) :
          LET r == MigrationRaises(user_version, objects, nodeCols,
                                   MigrationVersions[mi], k)
          IN /\ objects' = r.objects
             /\ nodeCols' = r.cols
             /\ user_version' = r.user_version
    /\ mpc' = "failed"
    /\ UNCHANGED <<currentVersion, mi, applied, installed, opens, snap,
                   storeVars, ledgerVars, graphVars, ingestVars,
                   searchVars, validatorVars, boxerVars, vectorVars,
                   tagVars, editVars, textVars>>

NextMigrateFaulty == OpenBegin \/ MigrateStep \/ MigrateStepRaises \/ CloseStore

InitFiles ==
    /\ IdleSearch
    /\ IdleBoxer
    /\ IdleValidator
    /\ IdleLedger
    /\ IdleGraph
    /\ IdleIngestor
    /\ InitMigrate

SpecMigrate == InitFiles /\ [][NextMigrate]_vars

\* Opening a file when a migration may throw.
SpecMigrateFaulty == InitFiles /\ [][NextMigrateFaulty]_vars

\* C10: an open ends with user_version at the highest migration version,
\* and after the first open has completed no migration runs and the file
\* (version, schema objects, columns, rows) stays as the first open left it.
C10_OpenIdempotent ==
    /\ mpc = "open" => user_version = CURRENT_SCHEMA_VERSION
    /\ mpc # "failed"
    /\ opens >= 1 => /\ mpc # "migrating"
                     /\ File = snap[1]
    /\ opens >= 2 => applied = <<>>

\* The second open of a file that started unversioned, without the FTS
\* table and with a row, has completed.
C10_Witness ==
    /\ opens = 2 /\ mpc = "open"
    /\ nodes # {}
    /\ "nodes_fts" \notin objects
    /\ nodeCols = ColsAt(3)

(***************************************************************************)
(* The Ingestor                                                            *)
(*                                                                         *)
(* The corpus: the lexicon artifact (items [id, slug, content], slug the   *)
(* slugified title, content the description or the title), the enriched    *)
(* directive artifact (entries [id, definition, rels]) and the source      *)
(* files ([name, type, date, whole, boxes]: the frontmatter date, the      *)
(* whole text of the file, and the matches of the locus-marker regex).     *)
(* An edge signal of a text is [kind, ref, key, block]: kind is "tag"      *)
(* ([Tag: ref]), "stub" (tag-ref), "wiki" ([[ref]]) or "meta" ([key: ref]  *)
(* inside the block-th tags comment); ref is given slugified for the       *)
(* lexicon lookups and verbatim for "meta".                                *)
(***************************************************************************)
MaxRuns == 2

Signal(kind, ref) == [kind |-> kind, ref |-> ref, key |-> "", block |-> 1]
MetaTag(key, ref, block) == [kind |-> "meta", ref |-> ref, key |-> key, block |-> block]

PersonaMeta == Some([source |-> Null, date |-> Null])

\* EdgeWeaver's constructor: the map slug -> id; each item sets its lowered
\* id and its slugified title, a later item overwriting an earlier one.
LexiconKeys(item) == {item.id, item.slug}

\* A lookup that gives every key back as an id.
LexiconGetVerbatim(lex, key) == Some(key)

LexiconGet(lex, key) ==
    LET hits == {n \in DOMAIN lex : key \in LexiconKeys(lex[n])}
    IN IF hits = {} THEN Null ELSE Some(lex[MaxOf(hits)].id)

\* EdgeWeaver.safeInsertEdge
SafeInsertEdge(es, source, target, type) ==
    IF Check(es, source, target, Threshold)
    THEN InsertEdge(es, source, target, type)
    ELSE es

\* History: the rows an insertEdge adds, with who added them and what
\* LouvainGate.check says on the table just before.
LogEdge(log, es, es2, source, target, type, by) ==
    IF BagIn(<<source, target, type>>, es2) /\ ~BagIn(<<source, target, type>>, es)
    THEN log \cup {[edge |-> <<source, target, type>>, by |-> by,
                    allowed |-> Check(es, source, target, Threshold)]}
    ELSE log

\* History: what the validator's delta is about.
StoreCounts ==
    [nodes   |-> Cardinality(nodes),
     vectors |-> Cardinality({n \in nodes : n.embedding # Null}),
     edges   |-> edges]

\* Ingestor.run, up to the first statement of bootstrapLexicon. A run can
\* follow one that completed or one that ended early.
StartRun ==
    /\ ipc \in {"idle", "done", "aborted"}
    /\ attempts < MaxRuns
    /\ ipc' = "lexicon"
    /\ ix' = [i |-> 1, j |-> 1, k |-> 1]
    /\ ingested' = {}
    /\ attempts' = attempts + 1
    /\ failure' = Null
    /\ startCounts' = Some(StoreCounts)
    /\ UNCHANGED <<corpus, woven, orphans, runs, edgeLog, runEnd,
                   storeVars, ledgerVars, graphVars, migVars,
                   searchVars, validatorVars, boxerVars, vectorVars,
                   tagVars, editVars, textVars>>

\* bootstrapLexicon, one iteration of "for (const item of items)": the
\* concept node is written with no hash and no embedding.
BootstrapLexiconItem ==
    /\ ipc = "lexicon"
    /\ ix.i <= Len(corpus.lexicon)
    /\ LET item == corpus.lexicon[ix.i]
           res == InsertNode(nodes, nodes_fts,
                      [id |-> item.id, type |-> "concept",
                       content |-> Some(item.content),
                       domain |-> Some("persona"), embedding |-> Null,
                       hash |-> Null, meta |-> PersonaMeta])
       IN /\ nodes' = res.nodes
          /\ nodes_fts' = res.fts
    /\ ix' = [ix EXCEPT !.i = ix.i + 1]
    /\ UNCHANGED <<corpus, woven, failure, attempts, startCounts,
                   ipc, orphans, runs, ingested, edgeLog, runEnd,
                   edges, ledgerVars, graphVars, migVars,
                   searchVars, validatorVars, boxerVars, vectorVars,
                   tagVars, editVars, textVars>>

\* bootstrapLexicon returns; ingestCDA begins.
BootstrapLexiconEnd ==
    /\ ipc = "lexicon"
    /\ ix.i > Len(corpus.lexicon)
    /\ ipc' = "cda"
    /\ ix' = [i |-> 1, j |-> 1, k |-> 1]
    /\ UNCHANGED <<corpus, woven, failure, attempts, startCounts,
                   orphans, runs, ingested, edgeLog, runEnd,
                   storeVars, ledgerVars, graphVars, migVars,
                   searchVars, validatorVars, boxerVars, vectorVars,
                   tagVars, editVars, textVars>>

\* ingestCDA, one iteration of "for (const entry of enrichedCda.entries)" up
\* to its inner loop: the directive node is written.
IngestCdaEntry ==
    /\ ipc = "cda"
    /\ ix.i <= Len(corpus.cda)
    /\ LET entry == corpus.cda[ix.i]
           res == InsertNode(nodes, nodes_fts,
                      [id |-> entry.id, type |-> "directive",
                       content |-> Some(entry.definition),
                       domain |-> Some("persona"), embedding |-> Null,
                       hash |-> Null, meta |-> PersonaMeta])
       IN /\ nodes' = res.nodes
          /\ nodes_fts' = res.fts
    /\ ipc' = "cdaRel"
    /\ ix' = [ix EXCEPT !.j = 1]
    /\ UNCHANGED <<corpus, woven, failure, attempts, startCounts,
                   orphans, runs, ingested, edgeLog, runEnd,
                   edges, ledgerVars, graphVars, migVars,
                   searchVars, validatorVars, boxerVars, vectorVars,
                   tagVars, editVars, textVars>>

\* ingestCDA, one iteration of "for (const rel of validated_relationships)".
IngestCdaRel ==
    /\ ipc = "cdaRel"
    /\ ix.j <= Len(corpus.cda[ix.i].rels)
    /\ LET entry == corpus.cda[ix.i]
           rel == entry.rels[ix.j]
           es2 == IF Check(edges, entry.id, rel.target, Threshold)
                  THEN InsertEdge(edges, entry.id, rel.target, rel.type)
                  ELSE edges
       IN /\ edges' = es2
          /\ edgeLog' = LogEdge(edgeLog, edges, es2, entry.id, rel.target, rel.type, "cda")
    /\ ix' = [ix EXCEPT !.j = ix.j + 1]
    /\ UNCHANGED <<corpus, woven, failure, attempts, startCounts,
                   ipc, orphans, runs, ingested, runEnd,
                   nodes, nodes_fts, ledgerVars, graphVars,
                   migVars,
                   searchVars, validatorVars, boxerVars, vectorVars,
                   tagVars, editVars, textVars>>

\* The inner loop ends: the next entry.
IngestCdaRelEnd ==
    /\ ipc = "cdaRel"
    /\ ix.j > Len(corpus.cda[ix.i].rels)
    /\ ipc' = "cda"
    /\ ix' = [ix EXCEPT !.i = ix.i + 1, !.j = 1]
    /\ UNCHANGED <<corpus, woven, failure, attempts, startCounts,
                   orphans, runs, ingested, edgeLog, runEnd,
                   storeVars, ledgerVars, graphVars, migVars,
                   searchVars, validatorVars, boxerVars, vectorVars,
                   tagVars, editVars, textVars>>

\* ingestCDA and runPersona return; runExperience begins its loop over the
\* files.
IngestCdaEnd ==
    /\ ipc = "cda"
    /\ ix.i > Len(corpus.cda)
    /\ ipc' = "files"
    /\ ix' = [i |-> 1, j |-> 1, k |-> 1]
    /\ UNCHANGED <<corpus, woven, failure, attempts, startCounts,
                   orphans, runs, ingested, edgeLog, runEnd,
                   storeVars, ledgerVars, graphVars, migVars,
                   searchVars, validatorVars, boxerVars, vectorVars,
                   tagVars, editVars, textVars>>

\* processFile, lines 328-329: the id of a file without locus markers, from
\* the last segment of its path: ".md" dropped, lowered, every other
\* character a hyphen.
FileSlug(name) ==
    CASE name = "hub.md" -> "hub"
      [] name = "Notes.md" -> "notes"
      [] name = "2025-01-02-d.md" -> "2025-01-02-d"
      [] name = "retro.md" -> "retro"
      [] name = "tiny.md" -> "tiny"
      [] name = "pair.md" -> "pair"
      [] name = "padded.md" -> "padded"
      [] name = "docs/Notes.md" -> "notes"
      [] name = "twins.md" -> "twins"
      [] OTHER -> "unknown"

\* TimelineWeaver, lines 91-95: the YYYY-MM-DD prefix of a file name, as a
\* day number.
NameDate(name) == IF name = "2025-01-02-d.md" THEN Some(2) ELSE Null

\* The boxes processFile hands to processBox, in order: the marker matches
\* with a non-empty body, trimmed; without any, the whole file under the
\* slug of its name, if it is longer than 10 characters.
FileBoxes(file) ==
    LET found == SelectSeq(file.boxes,
                     LAMBDA b : ~(b.content.text = "" /\ ~b.content.pad))
    IN IF found # <<>>
       THEN [n \in DOMAIN found |->
                [id |-> found[n].locus, content |-> Trim(found[n].content)]]
       ELSE IF file.whole.len # "tiny"
       THEN <<[id |-> FileSlug(file.name), content |-> file.whole]>>
       ELSE <<>>

\* Embedder.embed: the vector of a text (not normalised).
Embed(c) == [dir |-> c.text, mag |-> "big"]

\* The rows of a table in rowid order.
RECURSIVE RowsInOrder(_)
RowsInOrder(S) ==
    IF S = {} THEN <<>>
    ELSE LET first == CHOOSE r \in S : \A q \in S : r.rowid <= q.rowid
         IN <<first>> \o RowsInOrder(S \ {first})

\* ResonanceDB.getLexicon, as loadLexiconFromDB maps it.
LexiconFromDB(ns) ==
    LET rows == RowsInOrder({r \in ns : r.domain = "lexicon" /\ r.type = "concept"})
    IN [n \in DOMAIN rows |->
           [id |-> rows[n].id, slug |-> rows[n].id, content |-> rows[n].content]]

\* runExperience, lines 84-88: the lexicon the EdgeWeaver is built with.
WeaverLexicon ==
    IF Len(corpus.lexicon) = 0 THEN LexiconFromDB(nodes) ELSE corpus.lexicon

OfKind(links, kind) == SelectSeq(links, LAMBDA g : g.kind = kind)

\* EdgeWeaver.weave: the signals of a text in the order they are handled:
\* processTags (tags, then stubs), processWikiLinks, processMetadataTags
\* (the pairs of the first tags comment only).
WeaveOrder(c) ==
    OfKind(c.links, "tag") \o OfKind(c.links, "stub") \o OfKind(c.links, "wiki")
        \o SelectSeq(c.links, LAMBDA g : g.kind = "meta" /\ g.block = 1)

\* The edge a signal asks for, if any.
SignalEdge(lex, source, g) ==
    IF g.kind = "meta"
    THEN (IF g.key = "QUALITY" THEN Null ELSE Some(<<source, g.ref, g.key>>))
    ELSE LET conceptId == LexiconGet(lex, g.ref)
         IN IF conceptId = Null THEN Null
            ELSE Some(<<source, conceptId[1],
                        CASE g.kind = "tag" -> "TAGGED_AS"
                          [] g.kind = "stub" -> "EXEMPLIFIES"
                          [] g.kind = "wiki" -> "CITES">>)

CurrentFile == corpus.files[ix.i]
CurrentBox == FileBoxes(CurrentFile)[ix.j]

\* runExperience, one iteration of "for (const filePath of filesToProcess)"
\* up to the first processBox: the file is read and matched.
ProcessFile ==
    /\ ipc = "files"
    /\ ix.i <= Len(corpus.files)
    /\ ipc' = "box"
    /\ ix' = [ix EXCEPT !.j = 1]
    /\ UNCHANGED <<corpus, woven, failure, attempts, startCounts,
                   orphans, runs, ingested, edgeLog, runEnd,
                   storeVars, ledgerVars, graphVars, migVars,
                   searchVars, validatorVars, boxerVars, vectorVars,
                   tagVars, editVars, textVars>>

\* processBox up to weaver.weave: the hash check and the early return, or
\* the embedding (for a text of more than 50 characters) and the upsert.
ProcessBox ==
    /\ ipc = "box"
    /\ ix.j <= Len(FileBoxes(CurrentFile))
    /\ LET box == CurrentBox
           currentHash == HashContent(box.content)
           storedHash == GetNodeHash(nodes, box.id)
       IN IF storedHash = Some(currentHash)
          THEN /\ ix' = [ix EXCEPT !.j = ix.j + 1]
               /\ UNCHANGED <<ipc, nodes, nodes_fts, ingested, woven>>
          ELSE LET res == InsertNode(nodes, nodes_fts,
                              [id |-> box.id, type |-> CurrentFile.type,
                               content |-> Some(box.content),
                               domain |-> Some("experience"),
                               embedding |-> IF box.content.len = "long"
                                             THEN Some(Embed(box.content)) ELSE Null,
                               hash |-> Some(currentHash),
                               meta |-> Some([source |-> Some(CurrentFile.name),
                                              date |-> CurrentFile.date])])
               IN /\ nodes' = res.nodes
                  /\ nodes_fts' = res.fts
                  /\ ingested' = ingested \cup {box.id}
                  /\ woven' = woven \ {box.id}
                  /\ ipc' = "weave"
                  /\ ix' = [ix EXCEPT !.k = 1]
    /\ UNCHANGED <<corpus, failure, attempts, startCounts,
                   orphans, runs, edgeLog, runEnd,
                   edges, ledgerVars, graphVars, migVars,
                   searchVars, validatorVars, boxerVars, vectorVars,
                   tagVars, editVars, textVars>>

\* weaver.weave, one signal of the box's text.
WeaveSignal ==
    /\ ipc = "weave"
    /\ ix.k <= Len(WeaveOrder(CurrentBox.content))
    /\ LET g == WeaveOrder(CurrentBox.content)[ix.k]
           e == SignalEdge(WeaverLexicon, CurrentBox.id, g)
       IN IF e = Null
          THEN UNCHANGED <<edges, edgeLog>>
          ELSE LET es2 == SafeInsertEdge(edges, e[1][1], e[1][2], e[1][3])
               IN /\ edges' = es2
                  /\ edgeLog' = LogEdge(edgeLog, edges, es2,
                                        e[1][1], e[1][2], e[1][3], "weaver")
    /\ ix' = [ix EXCEPT !.k = ix.k + 1]
    /\ UNCHANGED <<corpus, woven, failure, attempts, startCounts,
                   ipc, orphans, runs, ingested, runEnd,
                   nodes, nodes_fts, ledgerVars, graphVars,
                   migVars,
                   searchVars, validatorVars, boxerVars, vectorVars,
                   tagVars, editVars, textVars>>

\* weave and processBox return: the next box.
WeaveEnd ==
    /\ ipc = "weave"
    /\ ix.k > Len(WeaveOrder(CurrentBox.content))
    /\ ipc' = "box"
    /\ ix' = [ix EXCEPT !.j = ix.j + 1, !.k = 1]
    /\ woven' = woven \cup {CurrentBox.id}
    /\ UNCHANGED <<corpus, failure, attempts, startCounts,
                   orphans, runs, ingested, edgeLog, runEnd,
                   storeVars, ledgerVars, graphVars, migVars,
                   searchVars, validatorVars, boxerVars, vectorVars,
                   tagVars, editVars, textVars>>

\* processFile returns: the next file.
ProcessFileEnd ==
    /\ ipc = "box"
    /\ ix.j > Len(FileBoxes(CurrentFile))
    /\ ipc' = "files"
    /\ ix' = [ix EXCEPT !.i = ix.i + 1, !.j = 1]
    /\ UNCHANGED <<corpus, woven, failure, attempts, startCounts,
                   orphans, runs, ingested, edgeLog, runEnd,
                   storeVars, ledgerVars, graphVars, migVars,
                   searchVars, validatorVars, boxerVars, vectorVars,
                   tagVars, editVars, textVars>>

\* The loop over the files ends: runWeavers.
ExperienceEnd ==
    /\ ipc = "files"
    /\ ix.i > Len(corpus.files)
    /\ ipc' = "timeline"
    /\ ix' = [i |-> 1, j |-> 1, k |-> 1]
    /\ UNCHANGED <<corpus, woven, failure, attempts, startCounts,
                   orphans, runs, ingested, edgeLog, runEnd,
                   storeVars, ledgerVars, graphVars, migVars,
                   searchVars, validatorVars, boxerVars, vectorVars,
                   tagVars, editVars, textVars>>

\* Array.prototype.sort with (a, b) => key(b) - key(a), on the keys: the
\* positions in descending order of key, equal keys in their first order.
RECURSIVE SortPerm(_, _)
SortPerm(keys, left) ==
    IF left = {} THEN <<>>
    ELSE LET n == CHOOSE n \in left :
                      \A q \in left : \/ keys[q] < keys[n]
                                      \/ keys[q] = keys[n] /\ n <= q
         IN <<n>> \o SortPerm(keys, left \ {n})

\* No sort: the sequence as it is.
SortNone(seq, keys) == seq

\* keys[n] is the key of seq[n].
SortDesc(seq, keys) ==
    LET perm == SortPerm(keys, DOMAIN seq)
    IN [n \in DOMAIN seq |-> seq[perm[n]]]

\* ResonanceDB.getNodesByType
GetNodesByType(ns, type) == RowsInOrder({r \in ns : r.type = type})

\* TimelineWeaver, lines 87-102: the date of a debrief, from its meta or
\* else from the name of its source file.
DateOf(row) ==
    IF row.meta = Null THEN Null
    ELSE IF row.meta[1].date # Null THEN row.meta[1].date
    ELSE IF row.meta[1].source # Null THEN NameDate(row.meta[1].source[1])
    ELSE Null

\* TimelineWeaver, lines 109-119: the chain over the sorted debriefs from
\* position n on, with the history of the rows it adds.
RECURSIVE TimelineChain(_, _, _, _)
TimelineChain(es, log, dated, n) ==
    IF n >= Len(dated) THEN [edges |-> es, log |-> log]
    ELSE LET es2 == InsertEdge(es, dated[n].id, dated[n + 1].id, "SUCCEEDS")
         IN TimelineChain(es2,
                LogEdge(log, es, es2, dated[n].id, dated[n + 1].id, "SUCCEEDS", "timeline"),
                dated, n + 1)

\* TimelineWeaver.weave on the tables: the edges after it, and the history
\* of the rows it adds.
TimelineWeaverWeave(ns, es, log) ==
    LET debriefs == GetNodesByType(ns, "debrief")
        datedNodes == SelectSeq(debriefs, LAMBDA r : DateOf(r) # Null)
        dated == SortDesc(datedNodes,
                          [n \in DOMAIN datedNodes |-> DateOf(datedNodes[n])[1]])
    IN IF Len(debriefs) < 2 THEN [edges |-> es, log |-> log]
       ELSE TimelineChain(es, log, dated, 1)

\* TimelineWeaver.weave
TimelineWeave ==
    /\ ipc = "timeline"
    /\ LET res == TimelineWeaverWeave(nodes, edges, edgeLog)
       IN /\ edges' = res.edges
          /\ edgeLog' = res.log
    /\ ipc' = "orphans"
    /\ UNCHANGED <<corpus, woven, failure, attempts, startCounts,
                   ix, orphans, runs, ingested, runEnd,
                   nodes, nodes_fts, ledgerVars, graphVars,
                   migVars,
                   searchVars, validatorVars, boxerVars, vectorVars,
                   tagVars, editVars, textVars>>

\* The embedding model, as far as the scores it leads to: the texts of a
\* pair in NearTexts are near each other.
NearTexts == {{"t1", "t2"}}

\* dotProduct, in hundredths: 100 for the same direction, 90 for near texts,
\* 30 for unrelated ones; a vector left with a magnitude below 1e-6 gives 0.
DotProduct(a, b) ==
    IF a.mag # "unit" \/ b.mag # "unit" THEN 0
    ELSE IF a.dir = b.dir THEN 100
    ELSE IF {a.dir, b.dir} \in NearTexts THEN 90
    ELSE 30

\* ResonanceDB.findSimilar
FindSimilar(ns, queryVec, limit, domain) ==
    LET rows == RowsInOrder({r \in ns : /\ r.embedding # Null
                                        /\ (domain # Null => r.domain = domain[1])})
        results == [n \in DOMAIN rows |->
                       [id |-> rows[n].id,
                        score |-> DotProduct(queryVec, rows[n].embedding[1])]]
        sorted == SortDesc(results, [n \in DOMAIN results |-> results[n].score])
    IN SubSeq(sorted, 1, IF Len(sorted) < limit THEN Len(sorted) ELSE limit)

\* The orphan query on the edges as they were before TimelineWeaver.
OrphanRowsBeforeTimeline(ns, es) ==
    RowsInOrder({n \in ns :
        /\ \A e \in BagToSet(es) : e[3] # "SUCCEEDS" => e[1] # n.id /\ e[2] # n.id
        /\ n.embedding # Null
        /\ n.type \notin {"root", "domain"}})

\* SemanticWeaver.weave, lines 10-20: the nodes with an embedding and no
\* edge, roots and domains left out.
OrphanRows(ns, es) ==
    RowsInOrder({n \in ns :
        /\ \A e \in BagToSet(es) : e[1] # n.id /\ e[2] # n.id
        /\ n.embedding # Null
        /\ n.type \notin {"root", "domain"}})

\* SemanticWeaver.weave, lines 10-25: the orphan query.
SemanticOrphans ==
    /\ ipc = "orphans"
    /\ LET rows == OrphanRows(nodes, edges)
       IN orphans' = [n \in DOMAIN rows |-> rows[n].id]
    /\ ipc' = "rescue"
    /\ ix' = [i |-> 1, j |-> 1, k |-> 1]
    /\ UNCHANGED <<corpus, woven, failure, attempts, startCounts,
                   runs, ingested, edgeLog, runEnd,
                   storeVars, ledgerVars, graphVars, migVars,
                   searchVars, validatorVars, boxerVars, vectorVars,
                   tagVars, editVars, textVars>>

\* The filter of the matches without the test on the id.
ValidMatchOrSelf(m, orphanId) == m.score > 85

\* SemanticWeaver.weave, line 49: the filter of the matches.
ValidMatch(m, orphanId) == m.score > 85 /\ m.id # orphanId

\* SemanticWeaver.weave, lines 46-53: the best valid match of an orphan
\* among the three most similar experience nodes, if there is one.
BestMatch(ns, orphan) ==
    LET matches == FindSimilar(ns, orphan.embedding[1], 3, Some("experience"))
        validMatches == SelectSeq(matches, LAMBDA m : ValidMatch(m, orphan.id))
    IN IF Len(validMatches) > 0 THEN Some(validMatches[1]) ELSE Null

\* SemanticWeaver.weave, one iteration of "for (const orphan of orphans)".
SemanticRescue ==
    /\ ipc = "rescue"
    /\ ix.i <= Len(orphans)
    /\ LET orphan == CHOOSE n \in nodes : n.id = orphans[ix.i]
           found == BestMatch(nodes, orphan)
       IN IF found # Null
          THEN LET best == found[1]
                   es2 == InsertEdge(edges, orphan.id, best.id, "RELATED_TO")
               IN /\ edges' = es2
                  /\ edgeLog' = LogEdge(edgeLog, edges, es2,
                                        orphan.id, best.id, "RELATED_TO", "semantic")
          ELSE UNCHANGED <<edges, edgeLog>>
    /\ ix' = [ix EXCEPT !.i = ix.i + 1]
    /\ UNCHANGED <<corpus, woven, failure, attempts, startCounts,
                   ipc, orphans, runs, ingested, runEnd,
                   nodes, nodes_fts, ledgerVars, graphVars,
                   migVars,
                   searchVars, validatorVars, boxerVars, vectorVars,
                   tagVars, editVars, textVars>>

\* SemanticWeaver.weave and runWeavers return.
SemanticEnd ==
    /\ ipc = "rescue"
    /\ ix.i > Len(orphans)
    /\ ipc' = "validate"
    /\ ix' = [i |-> 1, j |-> 1, k |-> 1]
    /\ UNCHANGED <<corpus, woven, failure, attempts, startCounts,
                   orphans, runs, ingested, edgeLog, runEnd,
                   storeVars, ledgerVars, graphVars, migVars,
                   searchVars, validatorVars, boxerVars, vectorVars,
                   tagVars, editVars, textVars>>

\* The three COUNT queries of captureBaseline and of validate.
Counts(ns, es) ==
    [nodes   |-> Cardinality(ns),
     edges   |-> BagCardinality(es),
     vectors |-> Cardinality({n \in ns : n.embedding # Null})]

\* PipelineValidator.captureBaseline
CaptureBaseline(ns, es) == Counts(ns, es)

\* validate, lines 171-181: the coverage check for 'experience'.
CoverageShort(ns, results) ==
    results.vectors < Cardinality({n \in ns : n.domain = "resonance"})

\* The orphan check conditioned on the source alone.
OrphanedEdgesBySource(ns, es) ==
    LET ids == {n.id : n \in ns}
        orphaned == {e \in BagToSet(es) : e[1] \notin ids}
    IN BagCardinality([e \in orphaned |-> CopiesIn(e, es)])

\* validate, lines 184-188: the number of edges whose source or whose target
\* is the id of no node.
OrphanedEdges(ns, es) ==
    LET ids == {n.id : n \in ns}
        orphaned == {e \in BagToSet(es) : e[1] \notin ids \/ e[2] \notin ids}
    IN BagCardinality([e \in orphaned |-> CopiesIn(e, es)])

\* PipelineValidator.validate, with a baseline.
Validate(ns, es, base, expect) ==
    LET results == Counts(ns, es)
        nodesAdded == results.nodes - base.nodes
        edgesAdded == results.edges - base.edges
        vectorsAdded == results.vectors - base.vectors
        ids == {n.id : n \in ns}
        errors ==
            (IF expect.min_nodes_added # Null
                /\ nodesAdded < expect.min_nodes_added[1]
             THEN {"min_nodes_added"} ELSE {})
            \cup (IF expect.required_vector_coverage = Some("all")
                     /\ results.vectors < results.nodes
                  THEN {"vector_coverage"} ELSE {})
            \cup (IF OrphanedEdges(ns, es) > 0
                  THEN {"orphaned_edges"} ELSE {})
            \cup (IF \E n, q \in ns : n # q /\ n.id = q.id
                  THEN {"duplicate_nodes"} ELSE {})
        warnings ==
            IF expect.required_vector_coverage = Some("experience")
               /\ CoverageShort(ns, results)
            THEN {"vector_coverage"} ELSE {}
    IN [passed |-> errors = {}, baseline |-> base, results |-> results,
        errors |-> errors, warnings |-> warnings,
        nodesAdded |-> nodesAdded, edgesAdded |-> edgesAdded,
        vectorsAdded |-> vectorsAdded]

\* runExperience, lines 118-127, and run return: a new validator captures
\* its baseline and, if the loop went over any file, validates; the run is
\* complete.
RunEnd ==
    /\ ipc = "validate"
    /\ ipc' = "done"
    /\ runs' = runs + 1
    /\ runEnd' = IF runs = 0 THEN Some(StoreCounts) ELSE runEnd
    /\ baseline' = Some(CaptureBaseline(nodes, edges))
    /\ expectations' = NoExpectations
    /\ report' = IF Len(corpus.files) > 0
                 THEN Some(Validate(nodes, edges, CaptureBaseline(nodes, edges),
                                    NoExpectations))
                 ELSE Null
    /\ UNCHANGED <<corpus, woven, failure, attempts, startCounts,
                   ix, orphans, ingested, edgeLog,
                   storeVars, ledgerVars, graphVars, migVars,
                   searchVars, boxerVars, vectorVars, tagVars, editVars,
                   textVars>>

\* ------------------------------------------------------------------------
\* SpecIngest: Ingestor.run, repeatedly, on a corpus that does not change.

ConceptAlpha == [id |-> "c1", slug |-> "alpha", content |-> Plain("alpha")]
ConceptBeta  == [id |-> "c2", slug |-> "beta", content |-> Plain("beta")]

Lexicons == {<<>>, <<ConceptAlpha>>, <<ConceptAlpha, ConceptBeta>>}

Rel(target, type) == [target |-> target, type |-> type]

Directive(id, rels) == [id |-> id, definition |-> Plain(id), rels |-> rels]

CdaOne == <<Directive("d1", <<Rel("c1", "IMPLEMENTS")>>)>>

CdaHub == <<Directive("d1", <<Rel("t", "X"), Rel("t", "Y")>>),
            Directive("t", <<Rel("c1", "X")>>),
            Directive("d2", <<Rel("t", "X"), Rel("d1", "X")>>)>>

Cdas == {<<>>, CdaOne, CdaHub}

HubText ==
    Text("t1", FALSE, "long",
         <<Signal("tag", "alpha"), Signal("stub", "beta"), Signal("wiki", "alpha"),
           Signal("wiki", "gamma"), MetaTag("CITES", "x1", 1),
           MetaTag("QUALITY", "x2", 1), MetaTag("SEE", "x3", 2)>>)

FileHub ==
    [name |-> "hub.md", head |-> Null, type |-> "playbook", date |-> Null,
     whole |-> HubText,
     boxes |-> <<[locus |-> "b0", content |-> Text("", FALSE, "tiny", <<>>)],
                 [locus |-> "b1", content |-> [HubText EXCEPT !.pad = TRUE]]>>]

FileNotes ==
    [name |-> "Notes.md", head |-> Null, type |-> "playbook", date |-> Null,
     whole |-> Text("t2", TRUE, "long", <<>>), boxes |-> <<>>]

FileTiny ==
    [name |-> "tiny.md", head |-> Null, type |-> "playbook", date |-> Null,
     whole |-> Text("t5", FALSE, "tiny", <<>>), boxes |-> <<>>]

FileDebrief ==
    [name |-> "2025-01-02-d.md", head |-> Null, type |-> "debrief", date |-> Null,
     whole |-> Text("t3", FALSE, "long", <<>>), boxes |-> <<>>]

FileRetro ==
    [name |-> "retro.md", head |-> Some(Text("fm", FALSE, "short", <<>>)),
     type |-> "debrief", date |-> Some(1),
     whole |-> Text("t4", FALSE, "short", <<>>),
     boxes |-> <<[locus |-> "r1", content |-> Text("t4", TRUE, "long", <<>>)]>>]

FileSets == {<<>>, <<FileTiny, FileRetro>>, <<FileHub, FileNotes>>,
             <<FileRetro, FileHub, FileDebrief, FileNotes>>}

InitIngest ==
    /\ IdleSearch
    /\ IdleBoxer
    /\ IdleValidator
    /\ IdleLedger
    /\ EmptyStore
    /\ IdleGraph
    /\ OpenedStore
    /\ corpus \in [lexicon : Lexicons, cda : Cdas, files : FileSets]
    /\ ipc = "idle"
    /\ ix = [i |-> 1, j |-> 1, k |-> 1]
    /\ orphans = <<>>
    /\ runs = 0
    /\ ingested = {}
    /\ edgeLog = {}
    /\ runEnd = Null
    /\ woven = {}
    /\ failure = Null
    /\ attempts = 0
    /\ startCounts = Null
    /\ edited = Null

NextIngest ==
    \/ StartRun
    \/ BootstrapLexiconItem
    \/ BootstrapLexiconEnd
    \/ IngestCdaEntry
    \/ IngestCdaRel
    \/ IngestCdaRelEnd
    \/ IngestCdaEnd
    \/ ProcessFile
    \/ ProcessBox
    \/ WeaveSignal
    \/ WeaveEnd
    \/ ProcessFileEnd
    \/ ExperienceEnd
    \/ TimelineWeave
    \/ SemanticOrphans
    \/ SemanticRescue
    \/ SemanticEnd
    \/ RunEnd

SpecIngest == InitIngest /\ [][NextIngest]_vars

\* A run ends early: the error leaves run(), or the process is gone. What
\* has been written stays (every statement commits on its own).
Abort(cause, at) ==
    /\ attempts = 1
    /\ ipc' = "aborted"
    /\ failure' = Some([cause |-> cause, at |-> at])
    /\ UNCHANGED <<corpus, woven, attempts, startCounts,
                   ix, orphans, runs, ingested, edgeLog, runEnd,
                   storeVars, ledgerVars, graphVars, migVars,
                   searchVars, validatorVars, boxerVars, vectorVars,
                   tagVars, editVars, textVars>>

\* processBox, line 363, when embedder.embed throws ("Failed to generate
\* embedding", or the model cannot be loaded): nothing catches it in
\* processBox, processFile, runExperience or run.
ProcessBoxEmbedFails ==
    /\ ipc = "box"
    /\ ix.j <= Len(FileBoxes(CurrentFile))
    /\ GetNodeHash(nodes, CurrentBox.id) # Some(HashContent(CurrentBox.content))
    /\ CurrentBox.content.len = "long"
    /\ Abort("embed", CurrentBox.id)

\* processFile, line 305, when Bun.file(filePath).text() throws: nothing
\* catches it in processFile, runExperience or run.
ProcessFileUnreadable ==
    /\ ipc = "files"
    /\ ix.i <= Len(corpus.files)
    /\ Abort("read", CurrentFile.name)

\* The process is stopped during Phase 2: between files, between boxes,
\* between a box's upsert and its weaving, or between two of its edges.
Interrupt ==
    /\ ipc \in {"files", "box", "weave"}
    /\ Abort("kill", ipc)

NextIngestFaulty ==
    \/ NextIngest
    \/ ProcessBoxEmbedFails
    \/ ProcessFileUnreadable
    \/ Interrupt

\* Ingestor.run when the first run may end early.
SpecIngestFaulty == InitIngest /\ [][NextIngestFaulty]_vars

\* The edges the text of a stored box declares, as weave would ask for them.
DeclaredEdges(n) ==
    IF n.content = Null THEN {}
    ELSE LET order == WeaveOrder(n.content[1])
             asked == {SignalEdge(WeaverLexicon, n.id, order[k]) : k \in DOMAIN order}
         IN {e[1] : e \in asked \ {Null}}

\* C1: when a second run over the same corpus and the same persona
\* artifacts has ended, it has written no box (every one was skipped by its
\* hash), and the number of nodes, the number of vectors and the rows of
\* edges are those at the end of the first run.
C1_RerunChangesNothing ==
    (ipc = "done" /\ runs = 2) =>
        /\ ingested = {}
        /\ StoreCounts.nodes = runEnd[1].nodes
        /\ StoreCounts.vectors = runEnd[1].vectors
        /\ StoreCounts.edges = runEnd[1].edges

\* C5: every node with content has as its stored hash the MD5 of its
\* trimmed content.
C5_HashMatchesContent ==
    \A n \in nodes :
        n.content # Null => n.hash = Some(HashContent(n.content[1]))

\* C9: every row of edges added during a run, other than by TimelineWeaver,
\* was allowed by LouvainGate.check on the table as it was just before.
C9_EdgesPassedGate ==
    \A r \in edgeLog : r.by # "timeline" => r.allowed

\* ------------------------------------------------------------------------
\* Claims on migrate with failing migrations (SpecMigrateFaulty).

\* C11: while and after migrate runs, user_version is the version of the
\* highest migration that has completed on the file, and the migrations
\* an open runs are in ascending order, each once.
C11_VersionIsHighestApplied ==
    /\ mpc # "closed" => user_version = MaxOf(installed \cup {0})
    /\ \A i, j \in DOMAIN applied : i < j => applied[i] < applied[j]

\* C12: when a migration raises, the constructor raises (no store is
\* opened by that call), no later migration has run, and user_version is
\* left as it was: at the last migration this open completed, or at the
\* version the open began with.
C12_MigrationFailureIsFatal ==
    /\ [](mpc = "failed" =>
            /\ user_version = IF applied = <<>> THEN currentVersion
                              ELSE applied[Len(applied)]
            /\ \A n \in DOMAIN applied : applied[n] < MigrationVersions[mi])
    /\ [][mpc' = "failed" /\ mpc # "failed" =>
            /\ mpc = "migrating"
            /\ user_version' = user_version
            /\ opens' = opens
            /\ applied' = applied]_vars

\* Migration 1 has completed and migration 2 has raised.
C12_Witness ==
    /\ mpc = "failed"
    /\ applied = <<1>>
    /\ mi = 2
    /\ user_version = 1

\* ------------------------------------------------------------------------
\* SpecSearch: the MCP tool search_documents on a store that holds documents.

\* Scores are in hundredths. The handler's constants:
DefaultLimit == 20
Boost == 20
KeywordBase == 50

\* The words the FTS index holds for a text ("kw" stands in both t1 and t2).
Terms(t) ==
    CASE t = "t1" -> {"t1", "kw"}
      [] t = "t2" -> {"t2", "kw"}
      [] OTHER -> {t}

\* bm25(nodes_fts) of a matching row: smaller is better.
Bm25(query, t) == IF query = t THEN 1 ELSE 2

Min(a, b) == IF a < b THEN a ELSE b

\* ResonanceDB.searchText: the rows of nodes_fts that match, joined to nodes
\* on rowid, ORDER BY rank LIMIT limit; any error inside is caught and gives
\* the empty list. Returns the ids.
SearchText(ns, fts, query, limit, fails) ==
    IF fails THEN <<>>
    ELSE LET hit == {n \in ns : \E f \in fts :
                        /\ f.rowid = n.rowid
                        /\ f.content # Null
                        /\ query \in Terms(f.content[1].text)}
             rows == RowsInOrder(hit)
             ftsOf(n) == CHOOSE f \in fts : f.rowid = n.rowid
             ranked == SortDesc(rows,
                          [n \in DOMAIN rows |->
                              0 - Bm25(query, ftsOf(rows[n]).content[1].text)])
         IN [n \in 1..Min(limit, Len(ranked)) |-> ranked[n].id]

\* VectorEngine.embed: the model's vector made a unit vector; null when the
\* model fails (the error is caught inside).
QueryBlob(query, fails) ==
    IF fails THEN Null ELSE Some(ToFafcas(Embed(Plain(query))))

\* VectorEngine.search: [] without a query vector; else every node with an
\* embedding and a score above 0, best first, at most limit.
VectorSearch(ns, query, limit, embedFails) ==
    LET queryBlob == QueryBlob(query, embedFails)
    IN IF queryBlob = Null THEN <<>>
       ELSE LET candidates == RowsInOrder({n \in ns : n.embedding # Null})
                scored == [n \in DOMAIN candidates |->
                              [id |-> candidates[n].id,
                               score |-> DotProduct(queryBlob[1],
                                                    candidates[n].embedding[1])]]
                results == SelectSeq(scored, LAMBDA r : r.score > 0)
                sorted == SortDesc(results, [n \in DOMAIN results |-> results[n].score])
            IN SubSeq(sorted, 1, Min(limit, Len(sorted)))

\* Handler, lines 229-236: the candidates map after the vector results.
VectorCandidates(vectorResults) ==
    [n \in DOMAIN vectorResults |->
        [id |-> vectorResults[n].id, score |-> vectorResults[n].score,
         source |-> "vector"]]

\* The merge in which a keyword result replaces the candidate of its id.
MergeKeywordOverwrite(candidates, ftsResults, n) ==
    LET ids == {ftsResults[m] : m \in DOMAIN ftsResults}
    IN SelectSeq(candidates, LAMBDA c : c.id \notin ids)
         \o [m \in DOMAIN ftsResults |->
                [id |-> ftsResults[m], score |-> KeywordBase, source |-> "keyword"]]

\* Handler, lines 246-259: the keyword results from position n on, merged
\* into the candidates map (a sequence in insertion order, as a Map is).
RECURSIVE MergeKeyword(_, _, _)
MergeKeyword(candidates, ftsResults, n) ==
    IF n > Len(ftsResults) THEN candidates
    ELSE LET id == ftsResults[n]
             existing == {m \in DOMAIN candidates : candidates[m].id = id}
         IN MergeKeyword(
                IF existing # {}
                THEN [m \in DOMAIN candidates |->
                         IF m \in existing
                         THEN [candidates[m] EXCEPT !.score = @ + Boost,
                                                    !.source = "hybrid"]
                         ELSE candidates[m]]
                ELSE Append(candidates,
                            [id |-> id, score |-> KeywordBase, source |-> "keyword"]),
                ftsResults, n + 1)

\* Number.prototype.toFixed(3) of a score in hundredths: the numeral with
\* three decimals, in thousandths.
ToFixed3(score) == score * 10

\* Number(args?.limit || 20)
LimitOf(limitArg) ==
    IF limitArg = Null \/ limitArg[1] = 0 THEN DefaultLimit ELSE limitArg[1]

\* The CallTool handler for search_documents. vectorFault is "no", "embed"
\* (the model fails, caught in VectorEngine.embed) or "db" (the query of
\* VectorEngine.search throws to the handler); ftsFault: the FTS query
\* throws (caught in searchText). Returns the response with, as history,
\* what each path returned.
SearchDocuments(ns, fts, query, limitArg, vectorFault, ftsFault) ==
    LET limit == LimitOf(limitArg)
        vectorResults == IF vectorFault = "db" THEN <<>>
                         ELSE VectorSearch(ns, query, limit, vectorFault = "embed")
        errors1 == IF vectorFault = "db" THEN <<"Vector Search Failed">> ELSE <<>>
        ftsResults == SearchText(ns, fts, query, limit, ftsFault)
        candidates == MergeKeyword(VectorCandidates(vectorResults), ftsResults, 1)
        sorted == SortDesc(candidates,
                           [n \in DOMAIN candidates |-> candidates[n].score])
        results == [n \in 1..Min(limit, Len(sorted)) |->
                       [id |-> sorted[n].id, score |-> ToFixed3(sorted[n].score),
                        source |-> sorted[n].source]]
    IN [query |-> query, limit |-> limit,
        vectorFault |-> vectorFault, ftsFault |-> ftsFault,
        vectorResults |-> vectorResults, ftsResults |-> ftsResults,
        errors |-> errors1, results |-> results,
        isError |-> Len(results) = 0 /\ Len(errors1) > 0]

\* A document as an indexer writes it; mag is the magnitude of its vector
\* ("none": no embedding).
Doc(id, t, mag) ==
    [id |-> id, type |-> "note",
     content |-> Some(Text(t, FALSE, "long", <<>>)),
     domain |-> Some("experience"),
     embedding |-> IF mag = "none" THEN Null ELSE Some([dir |-> t, mag |-> mag]),
     hash |-> Some(HashContent(Text(t, FALSE, "long", <<>>))),
     meta |-> Null]

\* The tables after insertNode of docs[n], docs[n + 1], ...
RECURSIVE StoreOf(_, _, _)
StoreOf(store, docs, n) ==
    IF n > Len(docs) THEN store
    ELSE StoreOf(InsertNode(store.nodes, store.fts, docs[n]), docs, n + 1)

SearchCorpora ==
    {<<>>,
     <<Doc("a", "t1", "big"), Doc("b", "t2", "big"), Doc("c", "t1", "none")>>,
     <<Doc("a", "t1", "big"), Doc("a", "t1", "big"), Doc("b", "t2", "zero")>>,
     <<Doc("a", "t2", "big"), Doc("b", "t1", "big"), Doc("c", "t1", "big"),
       Doc("a", "t3", "big")>>}

Queries == {"t1", "t2", "kw", "zz"}
LimitArgs == {Null, Some(0), Some(1), Some(2)}
VectorFaults == {"no", "embed", "db"}

InitSearch ==
    /\ IdleSearch
    /\ IdleBoxer
    /\ IdleValidator
    /\ IdleLedger
    /\ IdleGraph
    /\ OpenedStore
    /\ IdleIngestor
    /\ \E docs \in SearchCorpora :
          LET store == StoreOf([nodes |-> {}, fts |-> {}], docs, 1)
          IN nodes = store.nodes /\ nodes_fts = store.fts
    /\ edges = EmptyBag

\* A search_documents request is handled.
CallToolSearch ==
    /\ \E query \in Queries, limitArg \in LimitArgs,
          vectorFault \in VectorFaults, ftsFault \in BOOLEAN :
          call' = Some(SearchDocuments(nodes, nodes_fts, query, limitArg,
                                       vectorFault, ftsFault))
    /\ UNCHANGED <<storeVars, ledgerVars, graphVars, migVars, ingestVars, validatorVars,
                   boxerVars, vectorVars, tagVars, editVars, textVars>>

NextSearch == CallToolSearch

SpecSearch == InitSearch /\ [][NextSearch]_vars

IdsOf(results) == {results[n].id : n \in DOMAIN results}

C14_FailuresRecorded ==
    call # <<>> =>
        LET r == call[1]
            recorded == {r.errors[n] : n \in DOMAIN r.errors}
        IN /\ r.vectorFault # "no" => "Vector Search Failed" \in recorded
           /\ r.ftsFault => "FTS Search Failed" \in recorded
           /\ r.isError <=> (Len(r.results) = 0 /\ (r.vectorFault # "no" \/ r.ftsFault))

\* ------------------------------------------------------------------------
\* Claims on runs that end early (SpecIngestFaulty).

\* C15: when the embedding of a box of more than 50 characters fails, the
\* run goes on and the box's node is stored without an embedding.
C15_EmbedFailureSkipsVector ==
    (failure # Null /\ failure[1].cause = "embed") =>
        /\ ipc # "aborted"
        /\ \E n \in nodes : n.id = failure[1].at /\ n.embedding = Null

\* C16: when a source file cannot be read, the run goes on with the other
\* files, the weavers and the validator.
C16_UnreadableFileSkipped ==
    (failure # Null /\ failure[1].cause = "read") => ipc # "aborted"

\* C17: when a run has completed, also after an interrupted one, every
\* stored box has been woven since its upsert or has all the edges its
\* text declares.
C17_InterruptedThenFullRun ==
    (ipc = "done" /\ runs >= 1) =>
        \A n \in nodes :
            n.domain = "experience" =>
                \/ n.id \in woven
                \/ \A e \in DeclaredEdges(n) : BagIn(e, edges)

\* ------------------------------------------------------------------------
\* Claims on the order of a run and on its validation (SpecIngest).

\* The place of a position of run() in the order of the pipeline.
PhaseRank(pc) ==
    CASE pc \in {"idle", "done", "aborted"} -> 0
      [] pc = "lexicon" -> 1
      [] pc \in {"cda", "cdaRel"} -> 2
      [] pc \in {"files", "box", "weave"} -> 3
      [] pc = "timeline" -> 4
      [] pc \in {"orphans", "rescue"} -> 5
      [] pc = "validate" -> 6

PersonaRows == {n \in nodes : n.domain = "persona"}
EdgesOfType(es, type) == {e \in BagToSet(es) : e[3] = type}
LoggedBy(by) == {r \in edgeLog : r.by = by}

\* C18: within a run the phases follow each other: the persona nodes and
\* the directive edges are written before any box is processed; no node
\* is written once TimelineWeaver has started; SUCCEEDS edges are added
\* only by the TimelineWeaver step and RELATED_TO edges only after it; the
\* orphans SemanticWeaver works on have no edge at all, SUCCEEDS included;
\* the report is made after both weavers and nothing is written with it.
C18_PhaseOrder ==
    /\ [](ipc \in {"lexicon", "cda", "cdaRel"} => ingested = {})
    /\ [](ipc = "rescue" =>
            \A n \in DOMAIN orphans :
                \A e \in EdgesOfType(edges, "SUCCEEDS") :
                    e[1] # orphans[n] /\ e[2] # orphans[n])
    /\ [][/\ PhaseRank(ipc) > 0 /\ PhaseRank(ipc') > 0
             => PhaseRank(ipc') >= PhaseRank(ipc)
          /\ PhaseRank(ipc) >= 3
             => PersonaRows' = PersonaRows /\ LoggedBy("cda")' = LoggedBy("cda")
          /\ PhaseRank(ipc) >= 4 => nodes' = nodes
          /\ EdgesOfType(edges, "SUCCEEDS")' # EdgesOfType(edges, "SUCCEEDS")
             => ipc = "timeline"
          /\ EdgesOfType(edges, "RELATED_TO")' # EdgesOfType(edges, "RELATED_TO")
             => ipc = "rescue"
          /\ report' # report
             => ipc = "validate" /\ nodes' = nodes /\ edges' = edges]_vars

\* A run has completed in which directive edges were written, boxes were
\* stored, a debrief with an embedding got a SUCCEEDS edge and an orphan
\* was rescued, and the report was made.
C18_Witness ==
    /\ ipc = "done"
    /\ report # Null
    /\ LoggedBy("cda") # {}
    /\ LoggedBy("semantic") # {}
    /\ \E e \in EdgesOfType(edges, "SUCCEEDS") :
          \E n \in nodes : n.id = e[1] /\ n.embedding # Null

\* C19: the report of a run that has completed compares the store after
\* the run with the store as it was when the run began: the differences
\* between its results and its baseline are the numbers of node rows, edge
\* rows and vectors the run added.
C19_ReportComparesWithStart ==
    (ipc = "done" /\ report # Null) =>
        LET r == report[1]
            before == startCounts[1]
        IN /\ r.results.nodes - r.baseline.nodes
                = Cardinality(nodes) - before.nodes
           /\ r.results.edges - r.baseline.edges
                = BagCardinality(edges) - BagCardinality(before.edges)
           /\ r.results.vectors - r.baseline.vectors
                = Cardinality({n \in nodes : n.embedding # Null}) - before.vectors

\* ------------------------------------------------------------------------
\* SpecValidate: one validation run of a PipelineValidator on a store that
\* is written to: captureBaseline, expect, writes, then validate.

MaxDocs == 5

Expectations ==
    [min_nodes_added : {Null, Some(1)},
     required_vector_coverage : {Null, Some("all"), Some("experience")}]

\* What is written during the validation run.
NewDocs ==
    {Doc("d", "t3", "none"), Doc("e", "t3", "big"),
     [Doc("f", "t3", "none") EXCEPT !.domain = Some("resonance")]}

InitValidate == InitSearch

ValidatorCaptureBaseline ==
    /\ report = Null
    /\ baseline' = Some(CaptureBaseline(nodes, edges))
    /\ UNCHANGED <<expectations, report, storeVars, ledgerVars, graphVars,
                   migVars, ingestVars, searchVars, boxerVars, vectorVars,
                   tagVars, editVars, textVars>>

ValidatorExpect ==
    /\ report = Null
    /\ \E e \in Expectations : expectations' = e
    /\ UNCHANGED <<baseline, report, storeVars, ledgerVars, graphVars,
                   migVars, ingestVars, searchVars, boxerVars, vectorVars,
                   tagVars, editVars, textVars>>

\* The pipeline under validation writes a node.
ValidatorIndexDoc ==
    /\ report = Null
    /\ NextRowid(nodes) <= MaxDocs
    /\ \E doc \in NewDocs :
          LET res == InsertNode(nodes, nodes_fts, doc)
          IN nodes' = res.nodes /\ nodes_fts' = res.fts
    /\ UNCHANGED <<edges, ledgerVars, graphVars, migVars, ingestVars,
                   searchVars, validatorVars, boxerVars, vectorVars,
                   tagVars, editVars, textVars>>

\* The pipeline under validation writes an edge: between two nodes, or to
\* a target taken from a metadata tag that names no node.
NewEdges == {<<"a", "b", "LINKS">>, <<"a", "ghost", "CITES">>}

ValidatorInsertEdge ==
    /\ report = Null
    /\ \E e \in NewEdges : edges' = InsertEdge(edges, e[1], e[2], e[3])
    /\ UNCHANGED <<nodes, nodes_fts, ledgerVars, graphVars, migVars,
                   ingestVars, searchVars, validatorVars, boxerVars,
                   vectorVars, tagVars, editVars, textVars>>

\* validate; without a baseline it throws and there is no report.
ValidatorValidate ==
    /\ baseline # Null
    /\ report' = Some(Validate(nodes, edges, baseline[1], expectations))
    /\ UNCHANGED <<baseline, expectations, storeVars, ledgerVars, graphVars,
                   migVars, ingestVars, searchVars, boxerVars, vectorVars,
                   tagVars, editVars, textVars>>

NextValidate ==
    \/ ValidatorCaptureBaseline
    \/ ValidatorExpect
    \/ ValidatorIndexDoc
    \/ ValidatorInsertEdge
    \/ ValidatorValidate

SpecValidate == InitValidate /\ [][NextValidate]_vars

\* C20: with required_vector_coverage 'experience', the report has a
\* vector_coverage warning exactly when there are fewer nodes with an
\* embedding than nodes of domain 'experience', and the warning is no
\* error: the report passes unless it has errors.
C20_ExperienceCoverageWarning ==
    (report # Null /\ expectations.required_vector_coverage = Some("experience")) =>
        LET r == report[1]
        IN /\ "vector_coverage" \in r.warnings
                <=> Cardinality({n \in nodes : n.embedding # Null})
                      < Cardinality({n \in nodes : n.domain = "experience"})
           /\ "vector_coverage" \notin r.errors
           /\ r.passed <=> r.errors = {}

\* C21: a report of validate has passed = false whenever some edge of the
\* store has a source or a target that is the id of no node, and passed is
\* true exactly when the report has no error, whatever its warnings.
C21_OrphanEdgeFailsReport ==
    report # Null =>
        LET r == report[1]
            ids == {n.id : n \in nodes}
        IN /\ (\E e \in BagToSet(edges) : e[1] \notin ids \/ e[2] \notin ids)
                => ~r.passed /\ "orphaned_edges" \in r.errors
           /\ r.passed <=> r.errors = {}

C21_Witness ==
    /\ report # Null
    /\ "a" \in {n.id : n \in nodes}
    /\ BagIn(<<"a", "ghost", "CITES">>, edges)
    /\ report[1].errors = {"orphaned_edges"}
    /\ ~report[1].passed

(***************************************************************************)
(* BentoBoxer and the bento CLI                                            *)
(***************************************************************************)
\* SEAMAN_CONSTANTS.MAX_SIZE; config/constants gives no other value than
\* the documented default of 400 whitespace tokens.
MAX_SIZE == 400

MaxBlocks == 4

\* A top-level node of the tree: its type, its depth when a heading, and
\* the number of whitespace-separated tokens of its Markdown text.
Block(type, depth, tokens) == [type |-> type, depth |-> depth, tokens |-> tokens]

BlockKinds ==
    {Block("heading", 2, 2), Block("heading", 5, 2),
     Block("paragraph", 0, 200), Block("thematicBreak", 0, 1),
     Block("code", 0, 450)}

Documents == UNION {[1..n -> BlockKinds] : n \in 0..MaxBlocks}

\* The children of the tree, each with its position in the document.
Children(blocks) ==
    [n \in DOMAIN blocks |->
        [at |-> n, type |-> blocks[n].type, depth |-> blocks[n].depth,
         tokens |-> blocks[n].tokens]]

\* processor.stringify(root).trim(): the Markdown of the nodes, one after
\* the other; the empty string for no node.
Stringify(ns) ==
    [n \in DOMAIN ns |-> Block(ns[n].type, ns[n].depth, ns[n].tokens)]

RECURSIVE SumTokens(_, _)
SumTokens(content, n) ==
    IF n > Len(content) THEN 0
    ELSE content[n].tokens + SumTokens(content, n + 1)

\* countTokens: text.split(/\s+/).length, which is 1 for the empty string.
CountTokens(content) ==
    IF content = <<>> THEN 1 ELSE SumTokens(content, 1)

\* nodes.findIndex(n => n.type === "thematicBreak"), 1-based; 0 for -1.
HrIndex(ns) ==
    IF \E n \in DOMAIN ns : ns[n].type = "thematicBreak"
    THEN CHOOSE n \in DOMAIN ns :
            /\ ns[n].type = "thematicBreak"
            /\ \A q \in 1..(n - 1) : ns[q].type # "thematicBreak"
    ELSE 0

\* createBox, before the ledger gives the box its id.
CreateBox(ns, content, tokenCount) ==
    [content |-> content, tokenCount |-> tokenCount, isLeaf |-> TRUE,
     at |-> [n \in DOMAIN ns |-> ns[n].at]]

\* A group is halved only when it has more than two nodes.
SplittableOverTwo(ns) == Len(ns) > 2

\* packageContent, line 105: the guard of the split in halves.
Splittable(ns) == Len(ns) > 1

\* packageContent, lines 94-110: the two lists an oversized group is
\* fractured into, around its first thematic break or else in halves;
\* none for a single node.
Fracture(ns) ==
    LET hrIndex == HrIndex(ns)
        mid == Len(ns) \div 2
    IN IF hrIndex # 0
       THEN <<SubSeq(ns, 1, hrIndex - 1), SubSeq(ns, hrIndex + 1, Len(ns))>>
       ELSE IF Splittable(ns)
       THEN <<SubSeq(ns, 1, mid), SubSeq(ns, mid + 1, Len(ns))>>
       ELSE <<>>

\* BentoBoxer.packageContent
RECURSIVE PackageContent(_)
PackageContent(ns) ==
    LET content == Stringify(ns)
        tokenCount == CountTokens(content)
        parts == Fracture(ns)
    IN IF tokenCount <= MAX_SIZE \/ parts = <<>>
       THEN <<CreateBox(ns, content, tokenCount)>>
       ELSE PackageContent(parts[1]) \o PackageContent(parts[2])

\* BentoBoxer.process, the loop over tree.children from child n on, with
\* the nodes accumulated so far.
RECURSIVE ProcessFrom(_, _, _)
ProcessFrom(children, n, currentNodes) ==
    LET flush == IF Len(currentNodes) > 0
                 THEN PackageContent(currentNodes) ELSE <<>>
    IN IF n > Len(children) THEN flush
       ELSE IF children[n].type = "heading" /\ children[n].depth <= 4
       THEN flush \o ProcessFrom(children, n + 1, <<children[n]>>)
       ELSE ProcessFrom(children, n + 1, Append(currentNodes, children[n]))

\* BentoBoxer.process; a text of white space only has no children.
Process(blocks) ==
    IF blocks = <<>> THEN <<>> ELSE ProcessFrom(Children(blocks), 1, <<>>)

\* The id randomUUID() gives after the ids in minted.
FreshId(mintedIds) == "u" \o ToString(Cardinality(mintedIds) + 1)

\* createBox, lines 120-121, for the boxes from n on, in the order they
\* are created: getOrMintId(hashContent(content)) on one ledger handle.
RECURSIVE MintBoxes(_, _, _, _)
MintBoxes(bs, n, map, mintedIds) ==
    IF n > Len(bs) THEN [boxes |-> <<>>, map |-> map, minted |-> mintedIds]
    ELSE LET hash == bs[n].content
             hit == SelectLocus(map, hash)
             id == IF hit # {} THEN (CHOOSE r \in hit : TRUE).locus_id
                   ELSE FreshId(mintedIds)
             rest == MintBoxes(bs, n + 1,
                               IF hit # {} THEN map
                               ELSE InsertBento(map, hash, id).map,
                               IF hit # {} THEN mintedIds
                               ELSE mintedIds \cup {id})
         IN [rest EXCEPT !.boxes =
                <<[locusId |-> id, content |-> bs[n].content,
                   tokenCount |-> bs[n].tokenCount, isLeaf |-> TRUE,
                   at |-> bs[n].at]>> \o rest.boxes]

RECURSIVE Concat(_, _)
Concat(bs, n) ==
    IF n > Len(bs) THEN <<>> ELSE bs[n].content \o Concat(bs, n + 1)

\* runAuditCommand: the boxed file without its locus and tags comments
\* against the source, both with white space normalised.
AuditPasses(blocks, bs) ==
    Concat(bs, 1) = [n \in DOMAIN blocks |-> blocks[n]]

InitBoxer ==
    /\ IdleSearch
    /\ IdleValidator
    /\ InitLedger
    /\ EmptyStore
    /\ IdleGraph
    /\ OpenedStore
    /\ IdleIngestor
    /\ tree \in Documents
    /\ vocabulary = <<>>
    /\ searchKeys = <<>>
    /\ extracted = <<>>
    /\ page = <<>>
    /\ stash = <<>>
    /\ masked = <<>>
    /\ unmasked = <<>>
    /\ boxes = Null
    /\ audit = Null
    /\ blob = Null
    /\ instance = Null
    /\ llmInstance = FALSE
    /\ tpc = [c \in Callers |-> "idle"]
    /\ tags = [c \in Callers |-> "none"]

\* runBoxCommand without --tag: process the file and write the boxes.
BoxCommand ==
    /\ boxes = Null
    /\ LET res == MintBoxes(Process(tree), 1, bento_map, minted)
       IN /\ boxes' = Some(res.boxes)
          /\ bento_map' = res.map
          /\ minted' = res.minted
    /\ UNCHANGED <<tree, audit, hpc, harg, hret, returned, storeVars,
                   graphVars, migVars, ingestVars, searchVars,
                   validatorVars, vectorVars, tagVars, editVars, textVars>>

\* runAuditCommand on the source and the file BoxCommand wrote.
AuditCommand ==
    /\ boxes # Null
    /\ audit = Null
    /\ audit' = Some(AuditPasses(tree, boxes[1]))
    /\ UNCHANGED <<tree, boxes, ledgerVars, storeVars, graphVars, migVars,
                   ingestVars, searchVars, validatorVars, vectorVars,
                   tagVars, editVars, textVars>>

NextBoxer ==
    \/ BoxCommand
    \/ AuditCommand

SpecBoxer == InitBoxer /\ [][NextBoxer]_vars

RECURSIVE ConcatAt(_, _)
ConcatAt(bs, n) ==
    IF n > Len(bs) THEN <<>> ELSE bs[n].at \o ConcatAt(bs, n + 1)

\* C22: the contents of the boxes of process, concatenated in order, are
\* the top-level blocks of the document in their order, none dropped and
\* none twice, also after a fracture at a thematic break; and the audit of
\* the boxed output against the source passes.
C22_BoxesReproduceDocument ==
    /\ boxes # Null =>
          /\ ConcatAt(boxes[1], 1) = [n \in DOMAIN tree |-> n]
          /\ Concat(boxes[1], 1) = tree
    /\ audit # Null => audit[1]

\* C23: every box of process has at most MAX_SIZE tokens or consists of
\* exactly one top-level block.
C23_BoxWithinSizeOrSingleBlock ==
    boxes # Null =>
        \A n \in DOMAIN boxes[1] :
            \/ boxes[1][n].tokenCount <= MAX_SIZE
            \/ Len(boxes[1][n].at) = 1

C23_Witness ==
    /\ boxes # Null
    /\ \E n \in DOMAIN boxes[1] :
          boxes[1][n].tokenCount > MAX_SIZE /\ Len(boxes[1][n].at) = 1
    /\ \E n \in DOMAIN boxes[1] :
          Len(boxes[1][n].at) > 1 /\ boxes[1][n].tokenCount <= MAX_SIZE
    /\ Len(boxes[1]) > 2

(***************************************************************************)
(* SpecVectors: the embedding blobs of insertNode and VectorEngine.embed   *)
(***************************************************************************)
\* A Float32Array by direction and magnitude: "zero" is the all-zero
\* vector, "tiny" a non-zero vector of magnitude at most 1e-6, "big" one of
\* a larger magnitude other than 1, "unit" one of magnitude 1.
Vectors == [dir : {"t1", "t2"}, mag : {"zero", "tiny", "big", "unit"}]

VectorIds == {"a", "b"}

\* insertNode of a node that carries the vector v.
InsertVectorOp(id, v) ==
    /\ NextRowid(nodes) <= MaxRowid
    /\ LET res == InsertNode(nodes, nodes_fts,
                      [id |-> id, type |-> "note", content |-> Null,
                       domain |-> Null, embedding |-> Some(v), hash |-> Null,
                       meta |-> Null])
       IN /\ nodes' = res.nodes
          /\ nodes_fts' = res.fts
    /\ UNCHANGED <<edges, ledgerVars, graphVars, migVars, ingestVars,
                   searchVars, validatorVars, boxerVars, vectorVars,
                   tagVars, editVars, textVars>>

\* VectorEngine.embed: toFafcas of the first vector of the model's batch;
\* null when there is none or when the model throws.
VectorEngineEmbed ==
    /\ \E out \in {Null} \cup {Some(v) : v \in Vectors} :
          blob' = IF out = Null THEN Null ELSE Some(ToFafcas(out[1]))
    /\ UNCHANGED <<storeVars, ledgerVars, graphVars, migVars, ingestVars,
                   searchVars, validatorVars, boxerVars, tagVars, editVars,
                   textVars>>

NextVectors ==
    \/ \E id \in VectorIds, v \in Vectors : InsertVectorOp(id, v)
    \/ VectorEngineEmbed

SpecVectors == InitStore /\ [][NextVectors]_vars

\* C24: every embedding blob in the store and every blob VectorEngine.embed
\* returned is the all-zero vector or has L2 norm 1 (within 1e-5), whatever
\* vector went in, a non-zero one of magnitude at most 1e-6 included.
C24_BlobsZeroOrUnit ==
    /\ \A n \in nodes :
          n.embedding # Null => n.embedding[1].mag \in {"zero", "unit"}
    /\ blob # Null => blob[1].mag \in {"zero", "unit"}

(***************************************************************************)
(* SpecTags: TagEngine.getInstance and generateTags, two callers           *)
(***************************************************************************)
\* getInstance up to its await: a missing instance is created, with llm
\* null, and the caller awaits LLMClient.getInstance; an instance that
\* exists is returned as it is.
GetInstance(c) ==
    /\ tpc[c] = "idle"
    /\ IF instance = Null
       THEN /\ instance' = Some([llm |-> FALSE])
            /\ tpc' = [tpc EXCEPT ![c] = "awaiting"]
       ELSE /\ tpc' = [tpc EXCEPT ![c] = "engine"]
            /\ UNCHANGED instance
    /\ UNCHANGED <<llmInstance, tags, ledgerVars, storeVars, graphVars,
                   migVars, ingestVars, searchVars, validatorVars,
                   boxerVars, vectorVars, editVars, textVars>>

\* LLMClient.getInstance resolves: the settings were read and name a
\* provider (or the client exists already); llm is assigned and getInstance
\* returns the instance.
LLMClientResolves(c) ==
    /\ tpc[c] = "awaiting"
    /\ llmInstance' = TRUE
    /\ instance' = Some([llm |-> TRUE])
    /\ tpc' = [tpc EXCEPT ![c] = "engine"]
    /\ UNCHANGED <<tags, ledgerVars, storeVars, graphVars, migVars,
                   ingestVars, searchVars, validatorVars, boxerVars,
                   vectorVars, editVars, textVars>>

\* LLMClient.getInstance rejects: the settings file cannot be read or
\* parsed, or has no llm section or provider. getInstance rejects too.
LLMClientRejects(c) ==
    /\ tpc[c] = "awaiting"
    /\ ~llmInstance
    /\ tpc' = [tpc EXCEPT ![c] = "rejected"]
    /\ UNCHANGED <<instance, llmInstance, tags, ledgerVars, storeVars,
                   graphVars, migVars, ingestVars, searchVars,
                   validatorVars, boxerVars, vectorVars, editVars,
                   textVars>>

\* generateTags on an engine whose llm is set or not, with an LLM that
\* answers with JSON or fails.
GenerateTags(llm, answers) ==
    IF ~llm THEN "raised"
    ELSE IF answers THEN "tags" ELSE "empty"

GenerateTagsCall(c) ==
    /\ tpc[c] = "engine"
    /\ \E answers \in BOOLEAN :
          tags' = [tags EXCEPT ![c] = GenerateTags(instance[1].llm, answers)]
    /\ tpc' = [tpc EXCEPT ![c] = "done"]
    /\ UNCHANGED <<instance, llmInstance, ledgerVars, storeVars, graphVars,
                   migVars, ingestVars, searchVars, validatorVars,
                   boxerVars, vectorVars, editVars, textVars>>

\* The caller starts over after generateTags returned or getInstance
\* rejected.
CallAgain(c) ==
    /\ tpc[c] \in {"rejected", "done"}
    /\ tpc' = [tpc EXCEPT ![c] = "idle"]
    /\ UNCHANGED <<instance, llmInstance, tags, ledgerVars, storeVars, graphVars,
                   migVars, ingestVars, searchVars, validatorVars,
                   boxerVars, vectorVars, editVars, textVars>>

NextTags ==
    \/ \E c \in Callers : GetInstance(c)
    \/ \E c \in Callers : LLMClientResolves(c)
    \/ \E c \in Callers : LLMClientRejects(c)
    \/ \E c \in Callers : GenerateTagsCall(c)
    \/ \E c \in Callers : CallAgain(c)

SpecTags == InitStore /\ [][NextTags]_vars

\* C25: generateTags on an engine that getInstance returned never raises:
\* it gives a tag result, also for a getInstance made after an earlier one
\* failed while loading the LLM client, and for one made while another
\* still awaits the client.
C25_GenerateTagsNeverRaises ==
    \A c \in Callers : tags[c] # "raised"

(***************************************************************************)
(* SpecIngestEdits: Ingestor.run, repeatedly, on a corpus whose boxes are  *)
(* edited between the runs                                                 *)
(***************************************************************************)
\* A file of two boxes, each of more than 50 characters.
FilePair ==
    [name |-> "pair.md", head |-> Null, type |-> "playbook", date |-> Null,
     whole |-> Text("t7", FALSE, "long", <<>>),
     boxes |-> <<[locus |-> "p1", content |-> Text("t7", FALSE, "long", <<>>)],
                 [locus |-> "p2", content |-> Text("t8", FALSE, "long",
                                                   <<Signal("tag", "alpha"),
                                                     Signal("wiki", "alpha")>>)]>>]

\* A file without markers: a note of fewer than 50 characters followed by
\* blank lines that take the file over 50.
FilePadded ==
    [name |-> "padded.md", head |-> Null, type |-> "playbook", date |-> Null,
     whole |-> Text("t6", TRUE, "long", <<>>), boxes |-> <<>>]

EditFileSets == {<<FilePair>>, <<FilePadded, FileNotes>>,
                 <<FileRetro, FilePair>>}

\* What an author may make of a box: other words of the same length class,
\* fewer or more of them, other words without the tags and links, or the
\* same words without the white space around.
EditsOf(c) ==
    {[c EXCEPT !.text = "t9"],
     [c EXCEPT !.text = "t9", !.len = "short"],
     [c EXCEPT !.text = "t9", !.len = "long"],
     [c EXCEPT !.text = "t9", !.links = <<>>],
     Trim(c)} \ {c}

InitIngestEdits ==
    /\ IdleSearch
    /\ IdleBoxer
    /\ IdleValidator
    /\ IdleLedger
    /\ EmptyStore
    /\ IdleGraph
    /\ OpenedStore
    /\ corpus \in [lexicon : {<<ConceptAlpha>>}, cda : {<<>>, CdaOne},
                 files : EditFileSets]
    /\ ipc = "idle"
    /\ ix = [i |-> 1, j |-> 1, k |-> 1]
    /\ orphans = <<>>
    /\ runs = 0
    /\ ingested = {}
    /\ edgeLog = {}
    /\ runEnd = Null
    /\ woven = {}
    /\ failure = Null
    /\ attempts = 0
    /\ startCounts = Null
    /\ edited = Null

\* Between two runs, one box of one file is edited: a box under a marker,
\* or the whole text of a file without markers.
EditBox ==
    /\ ipc = "done"
    /\ attempts < MaxRuns
    /\ IF edited = Null THEN TRUE ELSE edited[1].after < runs
    /\ \E i \in DOMAIN corpus.files :
          LET file == corpus.files[i]
          IN IF file.boxes = <<>>
             THEN \E c \in EditsOf(file.whole) :
                     /\ corpus' = [corpus EXCEPT !.files[i].whole = c]
                     /\ edited' = Some([id |-> FileSlug(file.name),
                                        from |-> file.whole, to |-> c,
                                        after |-> runs, nodes |-> nodes])
             ELSE \E j \in DOMAIN file.boxes :
                     \E c \in EditsOf(file.boxes[j].content) :
                        /\ corpus' = [corpus EXCEPT !.files[i].boxes[j].content = c]
                        /\ edited' = Some([id |-> file.boxes[j].locus,
                                           from |-> file.boxes[j].content,
                                           to |-> c,
                                           after |-> runs, nodes |-> nodes])
    /\ UNCHANGED <<ipc, ix, orphans, runs, ingested, edgeLog, runEnd, woven,
                   failure, attempts, startCounts,
                   storeVars, ledgerVars, graphVars, migVars, searchVars,
                   validatorVars, boxerVars, vectorVars, tagVars, textVars>>

NextIngestEdits ==
    \/ NextIngest
    \/ EditBox

SpecIngestEdits == InitIngestEdits /\ [][NextIngestEdits]_vars

\* The run that followed the last edit is complete.
RunAfterEdit ==
    /\ ipc = "done"
    /\ edited # Null
    /\ runs = edited[1].after + 1

\* C26: a processBox that finds the stored hash of the box id equal to the
\* hash of the box's content leaves the store as it is (node rows, FTS
\* rows, edges) and upserts nothing; and in the run after one box of a file
\* was edited, no box but the edited one is rewritten: the experience nodes
\* of the other boxes are the rows they were.
C26_UnchangedBoxSkipped ==
    /\ [](RunAfterEdit =>
            /\ ingested \subseteq {edited[1].id}
            /\ \A n \in edited[1].nodes :
                  (n.domain = "experience" /\ n.id # edited[1].id) => n \in nodes)
    /\ [][(/\ ipc = "box"
           /\ ix.j <= Len(FileBoxes(CurrentFile))
           /\ GetNodeHash(nodes, CurrentBox.id)
                 = Some(HashContent(CurrentBox.content)))
          => (/\ nodes' = nodes
              /\ nodes_fts' = nodes_fts
              /\ edges' = edges
              /\ ingested' = ingested
              /\ ipc' = "box")]_vars

C26_Witness ==
    /\ RunAfterEdit
    /\ edited[1].id = "p1"
    /\ ingested = {"p1"}
    /\ \E n \in nodes : n.id = "p1" /\ n.content = Some(edited[1].to)
    /\ \E n \in nodes : n.id = "p2" /\ n \in edited[1].nodes

\* C28: an experience node the Ingestor wrote has an embedding exactly when
\* its content is longer than 50 characters; and when a box of more than 50
\* characters was edited down to 50 or fewer, its node has no embedding
\* once the next run is complete.
C28_EmbeddingIffLong ==
    /\ \A n \in nodes :
          n.domain = "experience"
             => (n.embedding # Null <=> n.content[1].len = "long")
    /\ (RunAfterEdit /\ edited[1].from.len = "long" /\ edited[1].to.len # "long")
          => \A n \in nodes : n.id = edited[1].id => n.embedding = Null

\* The nodes processBox wrote for the file, in the order of their rows.
NodesOfFile(ns, file) ==
    RowsInOrder({n \in ns : /\ n.domain = "experience"
                            /\ n.meta # Null
                            /\ n.meta[1].source = Some(file.name)})

\* C27: once a run is complete, a file without a locus marker has exactly
\* one node, with the slug of the file name as id and the whole file as
\* content; a file with markers has one node per marker, in document
\* order, and no part of the file is outside every box.
C27_OneNodePerFileOrMarker ==
    (ipc = "done" /\ runs >= 1) =>
        \A i \in DOMAIN corpus.files :
            LET file == corpus.files[i]
                rows == NodesOfFile(nodes, file)
            IN IF file.boxes = <<>>
               THEN /\ Len(rows) = 1
                    /\ rows[1].id = FileSlug(file.name)
                    /\ rows[1].content = Some(file.whole)
               ELSE /\ Len(rows) = Len(file.boxes)
                    /\ \A j \in DOMAIN rows :
                          /\ rows[j].id = file.boxes[j].locus
                          /\ rows[j].content = Some(Trim(file.boxes[j].content))
                    /\ file.head = Null
                          \/ \E j \in DOMAIN rows : rows[j].content = file.head

(***************************************************************************)
(* SpecTimeline: TimelineWeaver.weave on stores of debriefs                *)
(***************************************************************************)
\* The nodes written before the weave: debriefs dated by their meta, by
\* the name of their source file, by both or by neither, and a note.
TimelineDocs ==
    {[id |-> id, type |-> "debrief", content |-> Null, domain |-> Some("experience"),
      embedding |-> Null, hash |-> Null,
      meta |-> Some([source |-> Some(name), date |-> date])] :
        id \in NodeIds, name \in {"2025-01-02-d.md", "retro.md"},
        date \in {Null, Some(1), Some(3)}}
    \cup {[id |-> id, type |-> "note", content |-> Null,
           domain |-> Some("experience"), embedding |-> Null, hash |-> Null,
           meta |-> Some([source |-> Some("2025-01-02-d.md"), date |-> Some(1)])] :
             id \in NodeIds}

\* insertNode before any weave.
TimelineInsertNode ==
    /\ lastEdgeOp = "none"
    /\ NextRowid(nodes) <= MaxRowid
    /\ \E node \in TimelineDocs :
          LET res == InsertNode(nodes, nodes_fts, node)
          IN nodes' = res.nodes /\ nodes_fts' = res.fts
    /\ UNCHANGED <<edges, graphVars, ledgerVars, migVars, ingestVars,
                   searchVars, validatorVars, boxerVars, vectorVars,
                   tagVars, editVars, textVars>>

\* TimelineWeaver.weave(db)
TimelineWeaverOp ==
    /\ edges' = TimelineWeaverWeave(nodes, edges, edgeLog).edges
    /\ lastEdgeOp' = "timeline"
    /\ UNCHANGED <<nodes, nodes_fts, gate, ledgerVars, migVars, ingestVars,
                   searchVars, validatorVars, boxerVars, vectorVars,
                   tagVars, editVars, textVars>>

NextTimeline ==
    \/ TimelineInsertNode
    \/ TimelineWeaverOp

SpecTimeline == InitStore /\ [][NextTimeline]_vars

Debriefs(ns) == {n \in ns : n.type = "debrief"}
Dated(ns) == {n \in Debriefs(ns) : DateOf(n) # Null}

\* C29: after TimelineWeaver.weave on a store that had no SUCCEEDS edge,
\* with N dated debriefs (dated by meta.date, else by the date prefix of the
\* source file name) there are exactly N-1 SUCCEEDS edges, each from a
\* dated debrief to one not newer with no dated debrief strictly between
\* them, at most one out of and one into each debrief; no edge touches an
\* undated debrief or another node, and there is none when fewer than two
\* debriefs exist.
C29_TimelineChain ==
    lastEdgeOp = "timeline" =>
        LET dated == Dated(nodes)
            N == Cardinality(dated)
            rows == BagToSet(edges)
            date(id) == DateOf(CHOOSE n \in dated : n.id = id)[1]
        IN /\ BagCardinality(edges)
                = (IF Cardinality(Debriefs(nodes)) < 2 \/ N = 0 THEN 0 ELSE N - 1)
           /\ \A e \in rows :
                 /\ e[3] = "SUCCEEDS"
                 /\ e[1] # e[2]
                 /\ e[1] \in {n.id : n \in dated}
                 /\ e[2] \in {n.id : n \in dated}
                 /\ date(e[1]) >= date(e[2])
                 /\ ~\E m \in dated : date(e[2]) < date(m.id) /\ date(m.id) < date(e[1])
           /\ \A n \in dated :
                 /\ Cardinality({e \in rows : e[1] = n.id}) <= 1
                 /\ Cardinality({e \in rows : e[2] = n.id}) <= 1

C29_Witness ==
    /\ lastEdgeOp = "timeline"
    /\ Cardinality(Dated(nodes)) = 3
    /\ BagCardinality(edges) = 2
    /\ \E n \in Dated(nodes) : n.meta[1].date = Null
    /\ \E n \in Dated(nodes) : n.meta[1].date = Some(3)
    /\ \E n \in Dated(nodes) : n.meta[1].date = Some(1)

(***************************************************************************)
(* SpecSemantic: SemanticWeaver.weave on stores of notes                   *)
(***************************************************************************)
\* The nodes written before a weave: experience notes with a vector in one
\* of three directions or with none, a persona node and a root node.
SemanticDocs ==
    {Doc(id, t, "big") : id \in NodeIds, t \in {"t1", "t2"}}
    \cup {Doc("b", "t3", "big"),
          [Doc("b", "t2", "big") EXCEPT !.type = "root"],
          Doc("c", "t1", "none"),
          [Doc("c", "t1", "big") EXCEPT !.domain = Some("persona")]}

SemanticInsertNode ==
    /\ NextRowid(nodes) <= MaxRowid
    /\ \E node \in SemanticDocs :
          LET res == InsertNode(nodes, nodes_fts, node)
          IN nodes' = res.nodes /\ nodes_fts' = res.fts
    /\ lastEdgeOp' = "none"
    /\ UNCHANGED <<edges, gate, orphans, corpus, ipc, ix, runs, ingested,
                   edgeLog, runEnd, woven, failure, attempts, startCounts,
                   ledgerVars, migVars, searchVars, validatorVars, boxerVars,
                   vectorVars, tagVars, editVars, textVars>>

\* An edge woven from a note's text before the weave.
SemanticInsertEdge ==
    /\ edges' = InsertEdge(edges, "a", "b", "CITES")
    /\ lastEdgeOp' = "none"
    /\ UNCHANGED <<nodes, nodes_fts, gate, orphans, corpus, ipc, ix, runs,
                   ingested, edgeLog, runEnd, woven, failure, attempts,
                   startCounts, ledgerVars, migVars, searchVars,
                   validatorVars, boxerVars, vectorVars, tagVars, editVars,
                   textVars>>

\* The loop of SemanticWeaver.weave over the orphans from position n on.
RECURSIVE RescueFrom(_, _, _, _)
RescueFrom(ns, es, ids, n) ==
    IF n > Len(ids) THEN es
    ELSE LET orphan == CHOOSE r \in ns : r.id = ids[n]
             found == BestMatch(ns, orphan)
         IN RescueFrom(ns,
                       IF found # Null
                       THEN InsertEdge(es, orphan.id, found[1].id, "RELATED_TO")
                       ELSE es,
                       ids, n + 1)

\* SemanticWeaver.weave(db)
SemanticWeaverOp ==
    /\ LET rows == OrphanRows(nodes, edges)
           ids == [n \in DOMAIN rows |-> rows[n].id]
       IN /\ orphans' = ids
          /\ edges' = RescueFrom(nodes, edges, ids, 1)
    /\ lastEdgeOp' = "semantic"
    /\ UNCHANGED <<nodes, nodes_fts, gate, corpus, ipc, ix, runs, ingested,
                   edgeLog, runEnd, woven, failure, attempts, startCounts,
                   ledgerVars, migVars, searchVars, validatorVars, boxerVars,
                   vectorVars, tagVars, editVars, textVars>>

NextSemantic ==
    \/ SemanticInsertNode
    \/ SemanticInsertEdge
    \/ SemanticWeaverOp

SpecSemantic == InitStore /\ [][NextSemantic]_vars

\* The node with the id.
NodeOf(ns, id) == CHOOSE r \in ns : r.id = id

\* C30: a pass of SemanticWeaver.weave keeps the edges there were and adds
\* only RELATED_TO edges, at most one per source; the source of each had an
\* embedding and no incident edge when the pass began and is no root or
\* domain node; its target is another node, of domain experience, with an
\* embedding, whose dot product with the source is above 0.85 and not
\* below that of any other such node. So an orphan without such a match
\* gets no edge.
C30_RescueLinksBestMatch ==
    [][lastEdgeOp' = "semantic" =>
        LET added == BagToSet(edges') \ BagToSet(edges)
            candidates(s) == {q \in nodes : /\ q.id # s.id
                                            /\ q.domain = "experience"
                                            /\ q.embedding # Null}
            score(s, q) == DotProduct(s.embedding[1], q.embedding[1])
        IN /\ \A e \in BagToSet(edges) : CopiesIn(e, edges') = CopiesIn(e, edges)
           /\ \A e \in added :
                 /\ e[3] = "RELATED_TO"
                 /\ CopiesIn(e, edges') = 1
                 /\ e[1] # e[2]
                 /\ \E s \in nodes : s.id = e[1]
                 /\ LET s == NodeOf(nodes, e[1])
                    IN /\ s.embedding # Null
                       /\ s.type \notin {"root", "domain"}
                       /\ \A x \in BagToSet(edges) : x[1] # s.id /\ x[2] # s.id
                       /\ \E t \in candidates(s) :
                             /\ t.id = e[2]
                             /\ score(s, t) > 85
                             /\ \A q \in candidates(s) : score(s, q) <= score(s, t)
           /\ \A e, x \in added : e[1] = x[1] => e = x]_vars

C30_Witness ==
    /\ lastEdgeOp = "semantic"
    /\ Len(orphans) = 3
    /\ \A n \in nodes : n.embedding # Null /\ n.domain = "experience"
    /\ DotProduct(NodeOf(nodes, "a").embedding[1], NodeOf(nodes, "b").embedding[1]) = 90
    /\ DotProduct(NodeOf(nodes, "a").embedding[1], NodeOf(nodes, "c").embedding[1]) = 100
    /\ BagIn(<<"a", "c", "RELATED_TO">>, edges)
    /\ ~BagIn(<<"a", "b", "RELATED_TO">>, edges)

(***************************************************************************)
(* EdgeWeaver: what one signal of a text adds to the edges                 *)
(***************************************************************************)
\* The step of weaver.weave that handles a signal of the kinds.
WeavesSignalOf(kinds) ==
    /\ ipc = "weave"
    /\ ix.k <= Len(WeaveOrder(CurrentBox.content))
    /\ ix'.k = ix.k + 1
    /\ WeaveOrder(CurrentBox.content)[ix.k].kind \in kinds

\* C31: the step that handles an inline tag, a tag stub or a wiki-link adds
\* at most the edge from the box to the id of a lexicon item that has the
\* reference among its keys, and adds nothing when no item has it.
C31_NoGhostEdges ==
    [][WeavesSignalOf({"tag", "stub", "wiki"}) =>
        LET g == WeaveOrder(CurrentBox.content)[ix.k]
            lex == WeaverLexicon
            items == {lex[n] : n \in DOMAIN lex}
            resolving == {item \in items : g.ref \in {item.id, item.slug}}
            added == BagToSet(edges') \ BagToSet(edges)
        IN /\ \A e \in added :
                 /\ e[1] = CurrentBox.id
                 /\ e[2] \in {item.id : item \in resolving}
                 /\ e[3] \in {"TAGGED_AS", "EXEMPLIFIES", "CITES"}
           /\ \A e \in BagToSet(edges) : CopiesIn(e, edges') = CopiesIn(e, edges)
           /\ resolving = {} => edges' = edges]_vars

C31_Witness ==
    /\ ipc = "weave"
    /\ ix.k > Len(WeaveOrder(CurrentBox.content))
    /\ \E n \in DOMAIN CurrentBox.content.links :
          CurrentBox.content.links[n] = Signal("wiki", "gamma")
    /\ BagIn(<<CurrentBox.id, "c1", "TAGGED_AS">>, edges)
    /\ BagIn(<<CurrentBox.id, "c1", "CITES">>, edges)
    /\ ~\E e \in BagToSet(edges) : e[2] = "gamma"

\* The box's weave has handled every signal it handles.
WeaveDone ==
    /\ ipc = "weave"
    /\ ix.k > Len(WeaveOrder(CurrentBox.content))

\* C32: when weaver.weave has run on a box, every [KEY: Value] pair of
\* every tags comment of its text, whatever the comment's position, has
\* its edge box --KEY--> Value in the store unless the gate refuses it,
\* and a pair whose key is quality has none.
C32_EveryMetadataPairWoven ==
    WeaveDone =>
        \A n \in DOMAIN CurrentBox.content.links :
            LET g == CurrentBox.content.links[n]
            IN g.kind = "meta" =>
                  IF g.key = "QUALITY"
                  THEN ~BagIn(<<CurrentBox.id, g.ref, g.key>>, edges)
                  ELSE \/ BagIn(<<CurrentBox.id, g.ref, g.key>>, edges)
                       \/ ~Check(edges, CurrentBox.id, g.ref, Threshold)

\* C33: no step of the pipeline removes or changes a row of edges: every
\* row of a state is a row of the next, so every edge a weaver has added
\* is in the store in every later state, also after the box it was woven
\* from was edited and ingested again.
C33_EdgesOnlyGrow ==
    /\ [][\A e \in BagToSet(edges) : CopiesIn(e, edges') = CopiesIn(e, edges)]_vars
    /\ [](\A l \in edgeLog : BagIn(l.edge, edges))

C33_Witness ==
    /\ RunAfterEdit
    /\ edited[1].id = "p2"
    /\ edited[1].from.links # <<>>
    /\ edited[1].to.links = <<>>
    /\ ingested = {"p2"}
    /\ \E n \in nodes : n.id = "p2" /\ n.content = Some(edited[1].to)
    /\ BagIn(<<"p2", "c1", "TAGGED_AS">>, edges)
    /\ BagIn(<<"p2", "c1", "CITES">>, edges)

(***************************************************************************)
(* SpecTokenizer: TokenizerService.loadLexicon and extract                 *)
(*                                                                         *)
(* A text is a sequence of words, which single spaces separate. A term is  *)
(* [words, sep]: its words and what joins them, a space or a hyphen.       *)
(***************************************************************************)
TextWords == {"web", "Web", "standards", "open"}

\* String.prototype.toLowerCase, on a word.
Lower(w) ==
    CASE w = "Web" -> "web"
      [] w = "Standards" -> "standards"
      [] w = "Open" -> "open"
      [] w = "OH" -> "oh"
      [] OTHER -> w

LowerAll(ws) == [n \in DOMAIN ws |-> Lower(ws[n])]

Term(ws, sep) == [words |-> ws, sep |-> sep]

\* The number of characters of a word.
WordLength(w) ==
    CASE Lower(w) = "web" -> 3
      [] Lower(w) = "standards" -> 9
      [] Lower(w) = "open" -> 4
      [] Lower(w) = "oh" -> 2
      [] OTHER -> 1

\* String.prototype.length, on a term.
RECURSIVE TermLength(_)
TermLength(ws) ==
    IF ws = <<>> THEN 0
    ELSE WordLength(Head(ws)) + (IF Len(ws) > 1 THEN 1 ELSE 0) + TermLength(Tail(ws))

\* The items of a lexicon: [title, id, type, category].
ItemStandards ==
    [title |-> Some(Term(<<"Web", "Standards">>, " ")),
     id |-> Some(Term(<<"web", "standards">>, "-")),
     type |-> "concept", category |-> "Concept"]

ItemWeb ==
    [title |-> Some(Term(<<"Web">>, " ")), id |-> Some(Term(<<"web">>, " ")),
     type |-> "concept", category |-> "Tool"]

ItemOpenWeb ==
    [title |-> Some(Term(<<"Open", "Web">>, " ")),
     id |-> Some(Term(<<"OH", "1">>, "-")),
     type |-> "operational-heuristic", category |-> "Concept"]

LexiconItems == {ItemStandards, ItemWeb, ItemOpenWeb}

\* Map.prototype.set: a new key goes last, a known key keeps its place.
MapSet(map, key, value) ==
    IF \E n \in DOMAIN map : map[n].key = key
    THEN [n \in DOMAIN map |->
             IF map[n].key = key THEN [key |-> key, value |-> value] ELSE map[n]]
    ELSE Append(map, [key |-> key, value |-> value])

\* Map.prototype.get
MapGet(map, key) ==
    LET hits == {n \in DOMAIN map : map[n].key = key}
    IN IF hits = {} THEN Null ELSE Some(map[CHOOSE n \in hits : TRUE].value)

\* loadLexicon, lines 121-138: the entries one item sets.
LoadItem(map, item) ==
    LET tag == IF item.category = "Tool" THEN "Organization"
               ELSE IF item.type = "operational-heuristic" THEN "Protocol"
               ELSE "Concept"
        lowered(t) == Term(LowerAll(t.words), t.sep)
        m1 == IF item.title # Null THEN MapSet(map, lowered(item.title[1]), tag)
              ELSE map
        m2 == IF item.id # Null THEN MapSet(m1, lowered(item.id[1]), tag) ELSE m1
    IN IF item.id # Null /\ item.id[1].sep = "-" /\ Len(item.id[1].words) > 1
       THEN MapSet(m2, Term(LowerAll(item.id[1].words), " "), tag)
       ELSE m2

RECURSIVE LoadItems(_, _)
LoadItems(map, lexicon) ==
    IF lexicon = <<>> THEN map
    ELSE LoadItems(LoadItem(map, Head(lexicon)), Tail(lexicon))

\* The positions where the words occur in the text as whole words, letter
\* case apart: what String.includes on the lowered text and the \b...\b
\* regex with flag i both find.
Occurrences(text, ws) ==
    {p \in 1..(Len(text) - Len(ws) + 1) :
        \A n \in DOMAIN ws : Lower(text[p + n - 1]) = ws[n]}

\* A hyphenated term of several words is in no text of words and spaces.
TermOccurrences(text, term) ==
    IF term.sep = "-" /\ Len(term.words) > 1 THEN {}
    ELSE Occurrences(text, term.words)

\* Array.prototype.push unless Array.prototype.includes.
PushNew(list, x) ==
    IF \E n \in DOMAIN list : list[n] = x THEN list ELSE Append(list, x)

\* extract, lines 58-112: the scan of the terms from position n on.
RECURSIVE ScanFrom(_, _, _, _, _)
ScanFrom(text, keys, map, n, result) ==
    IF n > Len(keys) THEN result
    ELSE LET term == keys[n]
             occ == TermOccurrences(text, term)
         IN IF occ = {} THEN ScanFrom(text, keys, map, n + 1, result)
            ELSE LET first == CHOOSE p \in occ : \A q \in occ : p <= q
                     realTerm == SubSeq(text, first, first + Len(term.words) - 1)
                     tag == MapGet(map, term)
                     next ==
                        IF tag = Some("Protocol")
                        THEN [result EXCEPT !.protocols = PushNew(@, realTerm)]
                        ELSE IF tag = Some("Organization")
                        THEN [result EXCEPT !.organizations = PushNew(@, realTerm)]
                        ELSE [result EXCEPT !.concepts = PushNew(@, realTerm)]
                 IN ScanFrom(text, keys, map, n + 1, next)

\* TokenizerService.extract, the domain scan.
Extract(text, keys, map) ==
    ScanFrom(text, keys, map, 1,
             [protocols |-> <<>>, concepts |-> <<>>, organizations |-> <<>>])

MaxItems == 2
MaxWords == 3

\* TokenizerService.loadLexicon(lexicon)
LoadLexicon ==
    /\ \E lexicon \in UNION {[1..n -> LexiconItems] : n \in 0..MaxItems} :
          LET map == LoadItems(<<>>, lexicon)
              keys == [n \in DOMAIN map |-> map[n].key]
          IN /\ vocabulary' = map
             /\ searchKeys' = SortDesc(keys, [n \in DOMAIN keys |->
                                                 TermLength(keys[n].words)])
    /\ UNCHANGED <<extracted, page, stash, masked, unmasked,
                   ledgerVars, storeVars, graphVars, migVars, ingestVars,
                   searchVars, validatorVars, boxerVars, vectorVars, tagVars,
                   editVars>>

\* TokenizerService.extract(text)
ExtractOp ==
    /\ \E text \in UNION {[1..n -> TextWords] : n \in 1..MaxWords} :
          extracted' = Some([text |-> text,
                             terms |-> Extract(text, searchKeys, vocabulary)])
    /\ UNCHANGED <<vocabulary, searchKeys, page, stash, masked, unmasked,
                   ledgerVars, storeVars, graphVars, migVars, ingestVars,
                   searchVars, validatorVars, boxerVars, vectorVars, tagVars,
                   editVars>>

NextTokenizer ==
    \/ LoadLexicon
    \/ ExtractOp

SpecTokenizer == InitStore /\ [][NextTokenizer]_vars

\* The terms extract has recorded, in lower case.
Recorded ==
    LET r == extracted[1].terms
        all == r.protocols \o r.concepts \o r.organizations
    IN {LowerAll(all[n]) : n \in DOMAIN all}

\* C34: when a term of the vocabulary occurs in the text only inside
\* occurrences of a longer term of the vocabulary that extract has matched,
\* the result of extract holds the longer term and not the shorter one.
C34_LongestMatchWins ==
    extracted # Null =>
        LET text == extracted[1].text
            terms == {searchKeys[n] : n \in DOMAIN searchKeys}
            inside(p, short, q, long) ==
                q <= p /\ p + Len(short.words) <= q + Len(long.words)
        IN \A short, long \in terms :
              (/\ Len(short.words) < Len(long.words)
               /\ TermOccurrences(text, short) # {}
               /\ TermOccurrences(text, long) # {}
               /\ \A p \in TermOccurrences(text, short) :
                     \E q \in TermOccurrences(text, long) : inside(p, short, q, long))
              => /\ long.words \in Recorded
                 /\ short.words \notin Recorded

(***************************************************************************)
(* SpecNormalizer: BentoNormalizer.fixShouting                             *)
(*                                                                         *)
(* A document is the sequence of its lines (content.split("\n")), a line   *)
(* the sequence of its characters.                                         *)
(***************************************************************************)
\* "# a", " # a", "## a", "a" and "# ".
Lines ==
    {<<"#", " ", "a">>, <<" ", "#", " ", "a">>, <<"#", "#", " ", "a">>,
     <<"a">>, <<"#", " ">>}

MaxLines == 3
MaxTimes == 2

\* String.prototype.trim
RECURSIVE TrimStart(_)
TrimStart(line) ==
    IF line # <<>> /\ Head(line) = " " THEN TrimStart(Tail(line)) ELSE line

RECURSIVE TrimEnd(_)
TrimEnd(line) ==
    IF line # <<>> /\ line[Len(line)] = " "
    THEN TrimEnd(SubSeq(line, 1, Len(line) - 1)) ELSE line

TrimLine(line) == TrimEnd(TrimStart(line))

\* fixShouting, line 68: line.trim().startsWith("# ")
IsH1(line) ==
    LET t == TrimLine(line)
    IN Len(t) >= 2 /\ t[1] = "#" /\ t[2] = " "

\* fixShouting, lines 66-75: the map over the lines, h1Count being the
\* number of H1 lines seen before the first of them.
RECURSIVE ShoutFrom(_, _)
ShoutFrom(lines, h1Count) ==
    IF lines = <<>> THEN <<>>
    ELSE LET line == Head(lines)
         IN IF IsH1(line)
            THEN <<IF h1Count + 1 > 1 THEN <<"#">> \o line ELSE line>>
                     \o ShoutFrom(Tail(lines), h1Count + 1)
            ELSE <<line>> \o ShoutFrom(Tail(lines), h1Count)

\* fixShouting(content)
FixShouting(lines) == ShoutFrom(lines, 0)

\* A document is read.
ReadPage ==
    /\ \E lines \in UNION {[1..n -> Lines] : n \in 1..MaxLines} :
          page' = Some([lines |-> lines, times |-> 0])
    /\ UNCHANGED <<vocabulary, searchKeys, extracted, stash, masked, unmasked,
                   ledgerVars, storeVars, graphVars, migVars, ingestVars,
                   searchVars, validatorVars, boxerVars, vectorVars, tagVars,
                   editVars>>

\* content = fixShouting(content)
FixShoutingOp ==
    /\ page # Null
    /\ page[1].times < MaxTimes
    /\ page' = Some([lines |-> FixShouting(page[1].lines),
                     times |-> page[1].times + 1])
    /\ UNCHANGED <<vocabulary, searchKeys, extracted, stash, masked, unmasked,
                   ledgerVars, storeVars, graphVars, migVars, ingestVars,
                   searchVars, validatorVars, boxerVars, vectorVars, tagVars,
                   editVars>>

NextNormalizer ==
    \/ ReadPage
    \/ FixShoutingOp

SpecNormalizer == InitStore /\ [][NextNormalizer]_vars

\* C35: a document fixShouting has been applied to has at most one line
\* that is an H1 by fixShouting's test, and fixShouting leaves it as it is;
\* and an application keeps the first H1 line and every line that is no H1,
\* and puts one '#' before every later H1 line.
C35_ShoutingIdempotent ==
    /\ [](page # Null /\ page[1].times >= 1 =>
            /\ Cardinality({n \in DOMAIN page[1].lines : IsH1(page[1].lines[n])}) <= 1
            /\ FixShouting(page[1].lines) = page[1].lines)
    /\ [][(page # Null /\ page' # Null /\ page[1].times + 1 = page'[1].times) =>
            LET old == page[1].lines
                new == page'[1].lines
                h1s == {n \in DOMAIN old : IsH1(old[n])}
            IN /\ DOMAIN new = DOMAIN old
               /\ \A n \in DOMAIN old :
                     new[n] = IF n \in h1s /\ \E q \in h1s : q < n
                              THEN <<"#">> \o old[n] ELSE old[n]]_vars

(***************************************************************************)
(* SpecMasker: MarkdownMasker.mask, unmask and reset                       *)
(*                                                                         *)
(* A text is the sequence of its lines, a line a sequence of atoms: a      *)
(* word, a pipe, an inline code span, a fenced code block written on one   *)
(* line, or a token __NFZ_n__.                                             *)
(***************************************************************************)
Atom(kind) == [kind |-> kind, n |-> 0]

\* `__NFZ_${randomUUID()}__`: the n-th token of the masker.
Token(n) == [kind |-> "token", n |-> n]

\* "w", "w `c`", "| w |", "| `c` |" and "```f```".
MaskLines ==
    {<<Atom("word")>>,
     <<Atom("word"), Atom("code")>>,
     <<Atom("pipe"), Atom("word"), Atom("pipe")>>,
     <<Atom("pipe"), Atom("code"), Atom("pipe")>>,
     <<Atom("fence")>>}

MaxTextLines == 2
MaxStash == 2

\* masked.replace(pattern, ...) within one line, for the pattern of fenced
\* blocks or of inline code: every match, from the left, becomes a new
\* token and the stash gets the token with the match.
RECURSIVE MaskLine(_, _, _)
MaskLine(line, kind, st) ==
    IF line = <<>> THEN [line |-> <<>>, stash |-> st]
    ELSE LET a == Head(line)
         IN IF a.kind = kind
            THEN LET token == Token(Len(st) + 1)
                     rest == MaskLine(Tail(line), kind,
                                      Append(st, [token |-> token, match |-> <<a>>]))
                 IN [line |-> <<token>> \o rest.line, stash |-> rest.stash]
            ELSE LET rest == MaskLine(Tail(line), kind, st)
                 IN [line |-> <<a>> \o rest.line, stash |-> rest.stash]

RECURSIVE MaskAtoms(_, _, _)
MaskAtoms(text, kind, st) ==
    IF text = <<>> THEN [text |-> <<>>, stash |-> st]
    ELSE LET first == MaskLine(Head(text), kind, st)
             rest == MaskAtoms(Tail(text), kind, first.stash)
         IN [text |-> <<first.line>> \o rest.text, stash |-> rest.stash]

\* /^\|.*\|$/gm matches the line.
IsTableRow(line) ==
    Len(line) >= 2 /\ line[1].kind = "pipe" /\ line[Len(line)].kind = "pipe"

\* masked.replace(pattern, ...) for the pattern of table rows: every line
\* that begins and ends with a pipe becomes a new token.
RECURSIVE MaskRows(_, _)
MaskRows(text, st) ==
    IF text = <<>> THEN [text |-> <<>>, stash |-> st]
    ELSE LET line == Head(text)
         IN IF IsTableRow(line)
            THEN LET token == Token(Len(st) + 1)
                     rest == MaskRows(Tail(text),
                                      Append(st, [token |-> token, match |-> line]))
                 IN [text |-> <<<<token>>>> \o rest.text, stash |-> rest.stash]
            ELSE LET rest == MaskRows(Tail(text), st)
                 IN [text |-> <<line>> \o rest.text, stash |-> rest.stash]

\* MarkdownMasker.mask: the three patterns in their order.
Mask(text, st) ==
    LET fenced == MaskAtoms(text, "fence", st)
        inline == MaskAtoms(fenced.text, "code", fenced.stash)
    IN MaskRows(inline.text, inline.stash)

\* unmasked.split(token).join(content), within one line.
RECURSIVE Splice(_, _, _)
Splice(line, token, content) ==
    IF line = <<>> THEN <<>>
    ELSE (IF Head(line) = token THEN content ELSE <<Head(line)>>)
             \o Splice(Tail(line), token, content)

\* MarkdownMasker.unmask: this.stash.forEach, from entry n on.
RECURSIVE UnmaskFrom(_, _, _)
UnmaskFrom(text, st, n) ==
    IF n > Len(st) THEN text
    ELSE UnmaskFrom([l \in DOMAIN text |-> Splice(text[l], st[n].token, st[n].match)],
                    st, n + 1)

Unmask(text, st) == UnmaskFrom(text, st, 1)

\* masked = masker.mask(text)
MaskOp ==
    /\ Len(stash) <= MaxStash
    /\ \E text \in UNION {[1..n -> MaskLines] : n \in 1..MaxTextLines} :
          LET res == Mask(text, stash)
          IN /\ masked' = Some([plain |-> text, text |-> res.text])
             /\ stash' = res.stash
    /\ unmasked' = Null
    /\ UNCHANGED <<vocabulary, searchKeys, extracted, page,
                   ledgerVars, storeVars, graphVars, migVars, ingestVars,
                   searchVars, validatorVars, boxerVars, vectorVars, tagVars,
                   editVars>>

\* masker.unmask(masked)
UnmaskOp ==
    /\ masked # Null
    /\ unmasked' = Some(Unmask(masked[1].text, stash))
    /\ UNCHANGED <<vocabulary, searchKeys, extracted, page, stash, masked,
                   ledgerVars, storeVars, graphVars, migVars, ingestVars,
                   searchVars, validatorVars, boxerVars, vectorVars, tagVars,
                   editVars>>

\* masker.reset(), after a file is done.
ResetOp ==
    /\ stash' = <<>>
    /\ masked' = Null
    /\ unmasked' = Null
    /\ UNCHANGED <<vocabulary, searchKeys, extracted, page,
                   ledgerVars, storeVars, graphVars, migVars, ingestVars,
                   searchVars, validatorVars, boxerVars, vectorVars, tagVars,
                   editVars>>

NextMasker ==
    \/ MaskOp
    \/ UnmaskOp
    \/ ResetOp

SpecMasker == InitStore /\ [][NextMasker]_vars

\* C36: unmask of what mask returned is the text that was masked.
C36_MaskRoundTrip ==
    (masked # Null /\ unmasked # Null) => unmasked[1] = masked[1].plain

(***************************************************************************)
(* SpecIngestCold: one Ingestor.run on an empty store, on corpora with     *)
(* files of the same name and boxes of the same content                    *)
(***************************************************************************)
\* A second Notes.md, in another directory.
FileNotesDocs ==
    [name |-> "docs/Notes.md", head |-> Null, type |-> "playbook", date |-> Null,
     whole |-> Text("t8", FALSE, "long", <<>>), boxes |-> <<>>]

\* A file the box command wrote from a document with twice the same
\* section: createBox gives both boxes the locus id of their content hash.
FileTwins ==
    [name |-> "twins.md", head |-> Null, type |-> "playbook", date |-> Null,
     whole |-> Text("t7", FALSE, "long", <<>>),
     boxes |-> <<[locus |-> "w1", content |-> Text("t7", FALSE, "long", <<>>)],
                 [locus |-> "w1", content |-> Text("t7", FALSE, "long", <<>>)]>>]

ColdFileSets ==
    {<<FileNotes, FileNotesDocs>>, <<FileTwins>>, <<FileRetro, FilePair>>,
     <<FileHub, FileNotes>>, <<FileRetro, FileHub, FileDebrief, FileNotes>>}

InitIngestCold ==
    /\ IdleSearch
    /\ IdleBoxer
    /\ IdleValidator
    /\ IdleLedger
    /\ EmptyStore
    /\ IdleGraph
    /\ OpenedStore
    /\ corpus \in [lexicon : {<<ConceptAlpha>>, <<ConceptAlpha, ConceptBeta>>},
                 cda : Cdas, files : ColdFileSets]
    /\ ipc = "idle"
    /\ ix = [i |-> 1, j |-> 1, k |-> 1]
    /\ orphans = <<>>
    /\ runs = 0
    /\ ingested = {}
    /\ edgeLog = {}
    /\ runEnd = Null
    /\ woven = {}
    /\ failure = Null
    /\ attempts = 0
    /\ startCounts = Null
    /\ edited = Null

SpecIngestCold == InitIngestCold /\ [][NextIngest]_vars

\* The boxes of the corpus that processFile hands to processBox, as
\* <<file, box>> positions.
CorpusBoxes ==
    {<<i, j>> \in (DOMAIN corpus.files) \X (1..4) :
        j <= Len(FileBoxes(corpus.files[i]))}

\* C37: when the first run on an empty store is complete, there are as
\* many experience nodes as boxes in the corpus, and no two boxes have the
\* same id.
C37_NoBoxOverwritten ==
    (ipc = "done" /\ runs = 1) =>
        /\ Cardinality({n \in nodes : n.domain = "experience"})
              = Cardinality(CorpusBoxes)
        /\ \A b, c \in CorpusBoxes :
              FileBoxes(corpus.files[b[1]])[b[2]].id
                 = FileBoxes(corpus.files[c[1]])[c[2]].id => b = c

(***************************************************************************)
(* SpecTimelineRuns: TimelineWeaver.weave at the end of each run, with     *)
(* debriefs added between the runs                                         *)
(***************************************************************************)
\* A run ingests a debrief the store does not have yet.
TimelineAddDebrief ==
    /\ NextRowid(nodes) <= MaxRowid
    /\ \E node \in TimelineDocs :
          /\ node.type = "debrief"
          /\ ~\E r \in nodes : r.id = node.id
          /\ LET res == InsertNode(nodes, nodes_fts, node)
             IN nodes' = res.nodes /\ nodes_fts' = res.fts
    /\ lastEdgeOp' = "none"
    /\ UNCHANGED <<edges, gate, ledgerVars, migVars, ingestVars,
                   searchVars, validatorVars, boxerVars, vectorVars,
                   tagVars, editVars, textVars>>

NextTimelineRuns ==
    \/ TimelineAddDebrief
    \/ TimelineWeaverOp

SpecTimelineRuns == InitStore /\ [][NextTimelineRuns]_vars

\* C38: after each TimelineWeaver.weave, whatever debriefs were added
\* before it and whatever weaves came before, every debrief has at most
\* one outgoing and at most one incoming SUCCEEDS edge, and every SUCCEEDS
\* edge goes from a dated debrief to one not newer, with no dated debrief
\* strictly between the two.
C38_ChainAcrossRuns ==
    lastEdgeOp = "timeline" =>
        LET dated == Dated(nodes)
            rows == {e \in BagToSet(edges) : e[3] = "SUCCEEDS"}
            date(id) == DateOf(CHOOSE n \in dated : n.id = id)[1]
        IN /\ \A e \in rows :
                 /\ e[1] \in {n.id : n \in dated}
                 /\ e[2] \in {n.id : n \in dated}
                 /\ date(e[1]) >= date(e[2])
                 /\ ~\E m \in dated : date(e[2]) < date(m.id) /\ date(m.id) < date(e[1])
           /\ \A n \in Debriefs(nodes) :
                 /\ Cardinality({e \in rows : e[1] = n.id}) <= 1
                 /\ Cardinality({e \in rows : e[2] = n.id}) <= 1

(***************************************************************************)
(* SpecSemanticSteps: SemanticWeaver.weave on stores of notes, one orphan  *)
(* of its loop at a time                                                   *)
(***************************************************************************)
\* insertNode while no weave is running.
SemanticStepInsert ==
    /\ ipc = "idle"
    /\ SemanticInsertNode

\* runWeavers calls SemanticWeaver.weave(db).
SemanticBegin ==
    /\ ipc = "idle"
    /\ \E n \in nodes : n.embedding # Null
    /\ ipc' = "orphans"
    /\ UNCHANGED <<corpus, woven, failure, attempts, startCounts,
                   ix, orphans, runs, ingested, edgeLog, runEnd,
                   storeVars, ledgerVars, graphVars, migVars,
                   searchVars, validatorVars, boxerVars, vectorVars,
                   tagVars, editVars, textVars>>

\* SemanticWeaver.weave returns.
SemanticReturn ==
    /\ ipc = "rescue"
    /\ ix.i > Len(orphans)
    /\ ipc' = "idle"
    /\ ix' = [i |-> 1, j |-> 1, k |-> 1]
    /\ UNCHANGED <<corpus, woven, failure, attempts, startCounts,
                   orphans, runs, ingested, edgeLog, runEnd,
                   storeVars, ledgerVars, graphVars, migVars,
                   searchVars, validatorVars, boxerVars, vectorVars,
                   tagVars, editVars, textVars>>

NextSemanticSteps ==
    \/ SemanticStepInsert
    \/ SemanticBegin
    \/ SemanticOrphans
    \/ SemanticRescue
    \/ SemanticReturn

SpecSemanticSteps == InitStore /\ [][NextSemanticSteps]_vars

\* C39: an iteration of the rescue loop adds an edge only from a node that
\* is neither source nor target of any edge in the store just before it;
\* so a node that was given an incoming RELATED_TO edge earlier in the
\* pass gets no outgoing one.
C39_SourceIsOrphanAtInsertion ==
    [][(ipc = "rescue" /\ ix'.i = ix.i + 1) =>
          \A e \in BagToSet(edges') \ BagToSet(edges) :
             \A x \in BagToSet(edges) : x[1] # e[1] /\ x[2] # e[1]]_vars

\* The groups packageContent can be called with: the runs of consecutive
\* children of the tree.
Groups ==
    {SubSeq(Children(tree), i, j) : i \in 1..(Len(tree) + 1), j \in 0..Len(tree)}

\* C40: each of the two lists packageContent calls itself with is strictly
\* shorter than the list it was called with, so it terminates; and no box
\* of process has empty content, also for an oversized group that begins
\* or ends with a thematic break or has two of them in a row.
C40_TerminatesWithoutEmptyBox ==
    /\ \A g \in Groups :
          \A n \in DOMAIN Fracture(g) : Len(Fracture(g)[n]) < Len(g)
    /\ boxes # Null =>
          \A n \in DOMAIN boxes[1] : boxes[1][n].content # <<>>
====
